---- MODULE Spec2Model ----
(***************************************************************************)
(* A model of vv-ai-prompt-format: the section-delimited prompt text       *)
(* parser (parse / finishSection), its serializer, the option line codec   *)
(* (parseOptionsToObject / parseOptionValue) and the option validator      *)
(* (PromtOptionsParse).                                                     *)
(*                                                                         *)
(* Text is a sequence of one-character strings.  An optional value (a      *)
(* field that may be undefined, a reference that may be null) is a         *)
(* sequence of length 0 (absent) or 1 (present).  A JavaScript object is   *)
(* the sequence of its <<key, value>> entries in insertion order.          *)
(***************************************************************************)
EXTENDS Integers, Sequences, FiniteSets, TLC

VARIABLES
    \* parse(): its locals
    promts, inBlock, currentPromt, currentSection, currentSegmentName,
    sectionContent, i, use, returned,
    \* a caller of PromtOptionsParse: its arguments and the value returned
    raw, optUse, useAllOptions, optResult,
    \* a caller of parseOptionValue: its argument and the value returned
    valueStr, decoded,
    \* a caller of parseOptionsToObject: the lines of its argument and the
    \* value returned
    optionLines, rawOptions,
    \* a caller of PromtStore: its argument and the value returned
    records, stored,
    \* a caller of a vendor adapter: its argument, the adapter called and the
    \* value returned
    source, vendor, projected,
    \* a caller of GrammarCheck and of PromtLoad on a document with a grammar
    \* section: the grammar text and the two values returned
    grammarText, checked, loaded,
    \* a caller of PromtOptionsParse that keeps a result and changes it: the
    \* contents of the stopSequences arrays of the two defaults tables, the
    \* call kept and the result of a later call with the same arguments
    defaultStops, kept, again,
    \* a caller of PromtLoad on a text it writes line by line: the lines and
    \* the value returned
    document, output,
    \* two runs of parse on the same lines, one for each profile: the locals
    \* of each, the number of lines read, and the two values returned
    coreRun, jsonRun, linesRead, bothReturned

parseVars == <<promts, inBlock, currentPromt, currentSection, currentSegmentName,
               sectionContent, i, use, returned>>
optVars == <<raw, optUse, useAllOptions, optResult>>
decVars == <<valueStr, decoded>>
codecVars == <<optionLines, rawOptions>>
storeVars == <<records, stored>>
vendorVars == <<source, vendor, projected>>
grammarVars == <<grammarText, checked, loaded>>
sharedVars == <<defaultStops, kept, again>>
textVars == <<document, output>>
profileVars == <<coreRun, jsonRun, linesRead, bothReturned>>
callVars ==
    <<codecVars, storeVars, vendorVars, grammarVars, sharedVars, textVars, profileVars>>
vars == <<promts, inBlock, currentPromt, currentSection, currentSegmentName,
          sectionContent, i, use, returned,
          raw, optUse, useAllOptions, optResult, valueStr, decoded,
          optionLines, rawOptions, records, stored, source, vendor, projected,
          grammarText, checked, loaded, defaultStops, kept, again,
          document, output, coreRun, jsonRun, linesRead, bothReturned>>

(***************************************************************************)
(* Bounds of the model.                                                    *)
(***************************************************************************)
\* lines of input one run of parse() reads
MaxLines == 5
\* lines one section buffers
MaxContent == 2
\* entries a caller puts in the raw object handed to PromtOptionsParse
MaxRawKeys == 2
\* lines a caller hands to parseOptionsToObject
MaxOptionLines == 3
\* records a caller hands to PromtStore
MaxRecords == 2
\* lines of the text a caller writes for PromtLoad
MaxDocLines == 6
\* texts a caller pushes to the stopSequences of a result it keeps
MaxPushes == 2
\* length of the grammar text a caller types
MaxGrammarLen == 4
\* fields a caller sets in the options handed to a vendor adapter
MaxSourceKeys == 2
\* length of the text a caller types for parseOptionValue
MaxValueLen == 4

(***************************************************************************)
(* Optional values and objects.                                            *)
(***************************************************************************)
None == <<>>
Some(x) == <<x>>
Has(o) == o # <<>>
Val(o) == o[1]

ObjKeys(o) == [n \in 1..Len(o) |-> o[n][1]]
ObjHas(o, k) == \E n \in 1..Len(o) : o[n][1] = k
ObjGet(o, k) == o[CHOOSE n \in 1..Len(o) : o[n][1] = k][2]
\* o[k] = v: an existing key keeps its place, a new key goes last
ObjSet(o, k, v) ==
    IF ObjHas(o, k)
    THEN [n \in 1..Len(o) |-> IF o[n][1] = k THEN <<k, v>> ELSE o[n]]
    ELSE Append(o, <<k, v>>)
\* the same entries, in whatever order
ObjEq(a, b) ==
    /\ Len(a) = Len(b)
    /\ \A n \in 1..Len(a) : ObjHas(b, a[n][1]) /\ ObjGet(b, a[n][1]) = a[n][2]

(***************************************************************************)
(* Text: String.prototype.trim, split('\n'), join('\n'), startsWith,       *)
(* indexOf, toLowerCase, replace.                                          *)
(***************************************************************************)
WhiteSpace == {" ", "\t", "\r", "\n"}

RECURSIVE TrimStart(_)
TrimStart(s) ==
    IF s # <<>> /\ s[1] \in WhiteSpace THEN TrimStart(Tail(s)) ELSE s

RECURSIVE TrimEnd(_)
TrimEnd(s) ==
    IF s # <<>> /\ s[Len(s)] \in WhiteSpace
    THEN TrimEnd(SubSeq(s, 1, Len(s) - 1))
    ELSE s

Trim(s) == TrimEnd(TrimStart(s))

StartsWith(s, p) == Len(s) >= Len(p) /\ SubSeq(s, 1, Len(p)) = p
EndsWith(s, p) == Len(s) >= Len(p) /\ SubSeq(s, Len(s) - Len(p) + 1, Len(s)) = p

\* s.substring(n) with n counted from 0
SubstringFrom(s, n) == SubSeq(s, n + 1, Len(s))

\* s.indexOf(c), counted from 0; -1 when c does not occur
IndexOf(s, c) ==
    IF \E n \in 1..Len(s) : s[n] = c
    THEN (CHOOSE n \in 1..Len(s) : s[n] = c /\ \A k \in 1..(n - 1) : s[k] # c) - 1
    ELSE -1

RECURSIVE JoinLines(_)
JoinLines(ls) ==
    IF ls = <<>> THEN <<>>
    ELSE IF Len(ls) = 1 THEN ls[1]
    ELSE ls[1] \o <<"\n">> \o JoinLines(Tail(ls))

RECURSIVE SplitLines(_)
SplitLines(s) ==
    LET n == IndexOf(s, "\n")
    IN IF n = -1 THEN <<s>>
       ELSE <<SubSeq(s, 1, n)>> \o SplitLines(SubstringFrom(s, n + 1))

LowerChar(c) ==
    CASE c = "T" -> "t" [] c = "R" -> "r" [] c = "U" -> "u" [] c = "E" -> "e"
      [] c = "F" -> "f" [] c = "A" -> "a" [] c = "L" -> "l" [] c = "S" -> "s"
      [] c = "Y" -> "y" [] c = "N" -> "n" [] OTHER -> c
ToLowerCase(s) == [n \in 1..Len(s) |-> LowerChar(s[n])]

\* s.replace(',', '.'): the first occurrence only
ReplaceFirstComma(s) ==
    LET n == IndexOf(s, ",")
    IN IF n = -1 THEN s ELSE [k \in 1..Len(s) |-> IF k = n + 1 THEN "." ELSE s[k]]

(***************************************************************************)
(* Values.  A number is the finite decimal m / 10^e, kept normalised (e is *)
(* the least exponent that writes it), which is what a double holds and    *)
(* prints for the short decimal texts of this model.                       *)
(***************************************************************************)
RECURSIVE Pow10(_)
Pow10(n) == IF n = 0 THEN 1 ELSE 10 * Pow10(n - 1)

RECURSIVE Normalise(_, _)
Normalise(m, e) ==
    IF m = 0 THEN [t |-> "num", m |-> 0, e |-> 0]
    ELSE IF e < 0 THEN [t |-> "num", m |-> m * Pow10(0 - e), e |-> 0]
    ELSE IF e > 0 /\ m % 10 = 0 THEN Normalise(m \div 10, e - 1)
    ELSE [t |-> "num", m |-> m, e |-> e]

Num(m, e) == Normalise(m, e)
Int2Num(n) == Num(n, 0)
Bool(b) == [t |-> "bool", b |-> b]
Str(s) == [t |-> "str", s |-> s]
Arr(a) == [t |-> "arr", a |-> a]
Obj(o) == [t |-> "obj", o |-> o]
Null == [t |-> "null"]

IsNum(v) == v.t = "num"
IsInteger(v) == v.t = "num" /\ v.e = 0
\* v >= n and v <= n for a number v and an integer n
NumGe(v, n) == v.m \div Pow10(v.e) >= n
NumLe(v, n) ==
    \/ v.m \div Pow10(v.e) < n
    \/ v.m \div Pow10(v.e) = n /\ v.m % Pow10(v.e) = 0

Digits == {"0", "1", "2", "3", "4", "5", "6", "7", "8", "9"}
DigitVal(c) ==
    CASE c = "0" -> 0 [] c = "1" -> 1 [] c = "2" -> 2 [] c = "3" -> 3
      [] c = "4" -> 4 [] c = "5" -> 5 [] c = "6" -> 6 [] c = "7" -> 7
      [] c = "8" -> 8 [] c = "9" -> 9
DigitChar(n) ==
    CASE n = 0 -> "0" [] n = 1 -> "1" [] n = 2 -> "2" [] n = 3 -> "3"
      [] n = 4 -> "4" [] n = 5 -> "5" [] n = 6 -> "6" [] n = 7 -> "7"
      [] n = 8 -> "8" [] n = 9 -> "9"

\* the number of leading digits of s
RECURSIVE DigitRun(_)
DigitRun(s) ==
    IF s # <<>> /\ s[1] \in Digits THEN 1 + DigitRun(Tail(s)) ELSE 0

RECURSIVE DigitsVal(_)
DigitsVal(ds) ==
    IF ds = <<>> THEN 0
    ELSE 10 * DigitsVal(SubSeq(ds, 1, Len(ds) - 1)) + DigitVal(ds[Len(ds)])

RECURSIVE NatText(_)
NatText(n) ==
    IF n < 10 THEN <<DigitChar(n)>> ELSE NatText(n \div 10) \o <<DigitChar(n % 10)>>

RECURSIVE PadLeft(_, _)
PadLeft(ds, n) == IF Len(ds) >= n THEN ds ELSE PadLeft(<<"0">> \o ds, n)

\* Number::toString for a number inside the range printed without an exponent
NumberToString(v) ==
    LET a == IF v.m < 0 THEN 0 - v.m ELSE v.m
        sign == IF v.m < 0 THEN <<"-">> ELSE <<>>
    IN IF v.e = 0 THEN sign \o NatText(a)
       ELSE sign \o NatText(a \div Pow10(v.e)) \o <<".">>
                 \o PadLeft(NatText(a % Pow10(v.e)), v.e)

\* The exponent part of a decimal literal, read at the head of s: [len, exp],
\* len = 0 when there is none (an "e" that no digit follows is not part of the
\* number).
ExpValue(ds, n, used, neg) ==
    IF n = 0 THEN [len |-> 0, exp |-> 0]
    ELSE [len |-> used + n,
          exp |-> IF neg THEN 0 - DigitsVal(SubSeq(ds, 1, n)) ELSE DigitsVal(SubSeq(ds, 1, n))]
ExpSigned(r) ==
    IF r # <<>> /\ r[1] \in {"+", "-"}
    THEN ExpValue(Tail(r), DigitRun(Tail(r)), 2, r[1] = "-")
    ELSE ExpValue(r, DigitRun(r), 1, FALSE)
ExponentPart(s) ==
    IF s # <<>> /\ s[1] \in {"e", "E"} THEN ExpSigned(Tail(s)) ELSE [len |-> 0, exp |-> 0]

\* the length of a fraction part (the point and the digits after it) at the head of s
FracLen(s) == IF s # <<>> /\ s[1] = "." THEN 1 + DigitRun(Tail(s)) ELSE 0

\* the number written by ni integer digits of t, a fraction part of fl
\* characters after them and the exponent part ex
Decimal(t, ni, fl, ex, neg) ==
    LET mant == DigitsVal(SubSeq(t, 1, ni) \o SubSeq(t, ni + 2, ni + fl))
    IN Num(IF neg THEN 0 - mant ELSE mant, (IF fl > 0 THEN fl - 1 ELSE 0) - ex.exp)

\* parseFloat: the longest prefix of the text, after leading white space, that
\* is a decimal literal (sign, then Infinity or digits, fraction, exponent);
\* None is NaN.
T_Infinity == <<"I", "n", "f", "i", "n", "i", "t", "y">>
Infinity(neg) == [t |-> "infinity", neg |-> neg]
PFExp(t, neg, ni, fl) ==
    IF ni = 0 /\ fl <= 1 THEN None
    ELSE Some(Decimal(t, ni, fl, ExponentPart(SubstringFrom(t, ni + fl)), neg))
PFFrac(t, neg, ni) == PFExp(t, neg, ni, FracLen(SubstringFrom(t, ni)))
PFInfinity(t, neg) ==
    IF StartsWith(t, T_Infinity) THEN Some(Infinity(neg)) ELSE PFFrac(t, neg, DigitRun(t))
PFSign(t) ==
    IF t # <<>> /\ t[1] \in {"+", "-"}
    THEN PFInfinity(Tail(t), t[1] = "-")
    ELSE PFInfinity(t, FALSE)
ParseFloat(s) == PFSign(TrimStart(s))

(***************************************************************************)
(* JSON.parse and JSON.stringify, for the texts of this model: numbers,    *)
(* strings with the escapes \" \\ \/ \n \t \r, true, false, null, arrays   *)
(* and objects whose keys are not written as integers.                     *)
(***************************************************************************)
JsonFail == [ok |-> FALSE, v |-> Null, rest |-> <<>>]
JsonOk(v, rest) == [ok |-> TRUE, v |-> v, rest |-> rest]

Unescape(c) ==
    CASE c = "n" -> "\n" [] c = "t" -> "\t" [] c = "r" -> "\r" [] OTHER -> c

\* the characters of a string literal after its opening quote
RECURSIVE JsonStringBody(_, _)
JsonStringBody(s, acc) ==
    IF s = <<>> THEN JsonFail
    ELSE IF s[1] = "\"" THEN JsonOk(Str(acc), Tail(s))
    ELSE IF s[1] = "\\"
         THEN IF Len(s) >= 2 /\ s[2] \in {"\"", "\\", "/", "n", "t", "r"}
              THEN JsonStringBody(SubstringFrom(s, 2), Append(acc, Unescape(s[2])))
              ELSE JsonFail
    ELSE IF s[1] \in {"\n", "\t", "\r"} THEN JsonFail
    ELSE JsonStringBody(Tail(s), Append(acc, s[1]))

\* a JSON number: no "+", no leading zero, digits on both sides of a point
JNResult(t, neg, ni, fl, rest, ex) ==
    IF ni = 0 \/ fl = 1 \/ (rest # <<>> /\ rest[1] \in {"e", "E"} /\ ex.len = 0)
    THEN JsonFail
    ELSE JsonOk(Decimal(t, ni, fl, ex, neg), SubstringFrom(rest, ex.len))
JNExp(t, neg, ni, fl) ==
    JNResult(t, neg, ni, fl, SubstringFrom(t, ni + fl),
             ExponentPart(SubstringFrom(t, ni + fl)))
JNFrac(t, neg, ni) == JNExp(t, neg, ni, FracLen(SubstringFrom(t, ni)))
JNInt(t, neg) ==
    JNFrac(t, neg, IF t # <<>> /\ t[1] = "0" THEN 1 ELSE DigitRun(t))
JsonNumber(s) ==
    IF s # <<>> /\ s[1] = "-" THEN JNInt(Tail(s), TRUE) ELSE JNInt(s, FALSE)

RECURSIVE JsonValue(_)
RECURSIVE JsonElements(_, _)
RECURSIVE JsonMembers(_, _)

\* after an element r of an array: "," and the next element, or "]"
JsonElementEnd(r, t, acc) ==
    IF ~r.ok \/ t = <<>> THEN JsonFail
    ELSE IF t[1] = "," THEN JsonElements(Tail(t), Append(acc, r.v))
    ELSE IF t[1] = "]" THEN JsonOk(Arr(Append(acc, r.v)), Tail(t))
    ELSE JsonFail
JsonElement(r, acc) == JsonElementEnd(r, TrimStart(r.rest), acc)

\* the elements of an array after "[" or ",": acc holds those read so far
JsonElements(s, acc) == JsonElement(JsonValue(TrimStart(s)), acc)

\* after a member of an object: "," and the next member, or "}"
JsonMemberEnd(o, t) ==
    IF t = <<>> THEN JsonFail
    ELSE IF t[1] = "," THEN JsonMembers(Tail(t), o)
    ELSE IF t[1] = "}" THEN JsonOk(Obj(o), Tail(t))
    ELSE JsonFail
JsonMemberValue(k, r, acc) ==
    IF r.ok THEN JsonMemberEnd(ObjSet(acc, k.v.s, r.v), TrimStart(r.rest)) ELSE JsonFail
JsonMemberColon(k, t, acc) ==
    IF k.ok /\ t # <<>> /\ t[1] = ":"
    THEN JsonMemberValue(k, JsonValue(TrimStart(Tail(t))), acc)
    ELSE JsonFail
JsonMemberKey(k, acc) == JsonMemberColon(k, TrimStart(k.rest), acc)

\* the members of an object after "{" or ",": acc holds those read so far
JsonMembers(s, acc) ==
    IF TrimStart(s) # <<>> /\ TrimStart(s)[1] = "\""
    THEN JsonMemberKey(JsonStringBody(Tail(TrimStart(s)), <<>>), acc)
    ELSE JsonFail

\* after "[" and after "{"
JsonArray(t) ==
    IF t # <<>> /\ t[1] = "]" THEN JsonOk(Arr(<<>>), Tail(t)) ELSE JsonElements(t, <<>>)
JsonObject(t) ==
    IF t # <<>> /\ t[1] = "}" THEN JsonOk(Obj(<<>>), Tail(t)) ELSE JsonMembers(t, <<>>)

\* one value at the head of s (s has no leading white space)
JsonValue(s) ==
    IF s = <<>> THEN JsonFail
    ELSE IF s[1] = "\"" THEN JsonStringBody(Tail(s), <<>>)
    ELSE IF s[1] = "[" THEN JsonArray(TrimStart(Tail(s)))
    ELSE IF s[1] = "{" THEN JsonObject(TrimStart(Tail(s)))
    ELSE IF StartsWith(s, <<"t", "r", "u", "e">>) THEN JsonOk(Bool(TRUE), SubstringFrom(s, 4))
    ELSE IF StartsWith(s, <<"f", "a", "l", "s", "e">>) THEN JsonOk(Bool(FALSE), SubstringFrom(s, 5))
    ELSE IF StartsWith(s, <<"n", "u", "l", "l">>) THEN JsonOk(Null, SubstringFrom(s, 4))
    ELSE JsonNumber(s)

\* JSON.parse: None when it throws
JsonWhole(r) == IF r.ok /\ TrimStart(r.rest) = <<>> THEN Some(r.v) ELSE None
JsonParse(s) == JsonWhole(JsonValue(TrimStart(s)))

EscapeChar(c) ==
    CASE c = "\"" -> <<"\\", "\"">> [] c = "\\" -> <<"\\", "\\">>
      [] c = "\n" -> <<"\\", "n">> [] c = "\t" -> <<"\\", "t">>
      [] c = "\r" -> <<"\\", "r">> [] OTHER -> <<c>>

RECURSIVE EscapeText(_)
EscapeText(s) == IF s = <<>> THEN <<>> ELSE EscapeChar(s[1]) \o EscapeText(Tail(s))

QuoteText(s) == <<"\"">> \o EscapeText(s) \o <<"\"">>

RECURSIVE JoinWith(_, _)
JoinWith(parts, sep) ==
    IF parts = <<>> THEN <<>>
    ELSE IF Len(parts) = 1 THEN parts[1]
    ELSE parts[1] \o sep \o JoinWith(Tail(parts), sep)

\* JSON.stringify(v, null, gap): pad is the indentation of the line v starts
\* on; gap = <<>> writes the compact form.
RECURSIVE JsonStringify(_, _, _)
JsonStringify(v, gap, pad) ==
    LET inner == pad \o gap
        open == IF gap = <<>> THEN <<>> ELSE <<"\n">> \o inner
        close == IF gap = <<>> THEN <<>> ELSE <<"\n">> \o pad
        sep == <<",">> \o open
        colon == IF gap = <<>> THEN <<":">> ELSE <<":", " ">>
    IN CASE v.t = "num" -> NumberToString(v)
         [] v.t = "str" -> QuoteText(v.s)
         [] v.t = "bool" -> IF v.b THEN <<"t", "r", "u", "e">> ELSE <<"f", "a", "l", "s", "e">>
         [] v.t = "null" -> <<"n", "u", "l", "l">>
         [] v.t = "arr" ->
              IF v.a = <<>> THEN <<"[", "]">>
              ELSE <<"[">> \o open
                   \o JoinWith([n \in 1..Len(v.a) |-> JsonStringify(v.a[n], gap, inner)], sep)
                   \o close \o <<"]">>
         [] v.t = "obj" ->
              IF v.o = <<>> THEN <<"{", "}">>
              ELSE <<"{">> \o open
                   \o JoinWith([n \in 1..Len(v.o) |->
                                  QuoteText(v.o[n][1]) \o colon
                                  \o JsonStringify(v.o[n][2], gap, inner)], sep)
                   \o close \o <<"}">>

(***************************************************************************)
(* The option tables: PromtValue (bounds), defVal and defValJson (the      *)
(* defaults, whose key order is the field order), and the two schemas.     *)
(***************************************************************************)
K_temperature == <<"t", "e", "m", "p", "e", "r", "a", "t", "u", "r", "e">>
K_topP == <<"t", "o", "p", "P">>
K_topK == <<"t", "o", "p", "K">>
K_minP == <<"m", "i", "n", "P">>
K_maxTokens == <<"m", "a", "x", "T", "o", "k", "e", "n", "s">>
K_repeatPenalty == <<"r", "e", "p", "e", "a", "t", "P", "e", "n", "a", "l", "t", "y">>
K_repeatPenaltyNum == <<"r", "e", "p", "e", "a", "t", "P", "e", "n", "a", "l", "t", "y", "N", "u", "m">>
K_presencePenalty == <<"p", "r", "e", "s", "e", "n", "c", "e", "P", "e", "n", "a", "l", "t", "y">>
K_frequencyPenalty == <<"f", "r", "e", "q", "u", "e", "n", "c", "y", "P", "e", "n", "a", "l", "t", "y">>
K_mirostat == <<"m", "i", "r", "o", "s", "t", "a", "t">>
K_mirostatTau == <<"m", "i", "r", "o", "s", "t", "a", "t", "T", "a", "u">>
K_mirostatEta == <<"m", "i", "r", "o", "s", "t", "a", "t", "E", "t", "a">>
K_penalizeNewline == <<"p", "e", "n", "a", "l", "i", "z", "e", "N", "e", "w", "l", "i", "n", "e">>
K_stopSequences == <<"s", "t", "o", "p", "S", "e", "q", "u", "e", "n", "c", "e", "s">>
K_trimWhitespace == <<"t", "r", "i", "m", "W", "h", "i", "t", "e", "s", "p", "a", "c", "e">>
K_seed == <<"s", "e", "e", "d">>

Undefined == [t |-> "undefined"]

Bounds(lo, hi) == [minimum |-> lo, maximum |-> hi]

PromtValue ==
    << <<K_temperature, Bounds(Some(0), Some(2))>>,
       <<K_topP, Bounds(Some(0), Some(1))>>,
       <<K_topK, Bounds(Some(1), Some(1000))>>,
       <<K_minP, Bounds(Some(0), Some(1))>>,
       <<K_maxTokens, Bounds(Some(1), Some(131072))>>,
       <<K_repeatPenalty, Bounds(Some(-2), Some(2))>>,
       <<K_repeatPenaltyNum, Bounds(Some(0), Some(2048))>>,
       <<K_presencePenalty, Bounds(Some(-2), Some(2))>>,
       <<K_frequencyPenalty, Bounds(Some(-2), Some(2))>>,
       <<K_mirostat, Bounds(Some(0), Some(2))>>,
       <<K_mirostatTau, Bounds(Some(0), Some(10))>>,
       <<K_mirostatEta, Bounds(Some(0), Some(1))>>,
       <<K_penalizeNewline, Bounds(None, None)>>,
       <<K_stopSequences, Bounds(None, None)>>,
       <<K_trimWhitespace, Bounds(None, None)>>,
       <<K_seed, Bounds(Some(0), None)>> >>

defVal ==
    << <<K_temperature, Num(8, 1)>>,
       <<K_topP, Num(9, 1)>>,
       <<K_topK, Int2Num(40)>>,
       <<K_minP, Int2Num(0)>>,
       <<K_maxTokens, Int2Num(128)>>,
       <<K_repeatPenalty, Num(11, 1)>>,
       <<K_repeatPenaltyNum, Int2Num(64)>>,
       <<K_presencePenalty, Int2Num(0)>>,
       <<K_frequencyPenalty, Num(11, 1)>>,
       <<K_mirostat, Int2Num(0)>>,
       <<K_mirostatTau, Int2Num(5)>>,
       <<K_mirostatEta, Num(1, 1)>>,
       <<K_penalizeNewline, Bool(TRUE)>>,
       <<K_stopSequences, Arr(<<>>)>>,
       <<K_trimWhitespace, Bool(TRUE)>> >>

defValJson ==
    << <<K_temperature, Int2Num(0)>>,
       <<K_topP, Num(1, 1)>>,
       <<K_topK, Int2Num(10)>>,
       <<K_minP, Int2Num(0)>>,
       <<K_maxTokens, Int2Num(4096)>>,
       <<K_repeatPenalty, Int2Num(1)>>,
       <<K_repeatPenaltyNum, Int2Num(0)>>,
       <<K_presencePenalty, Int2Num(0)>>,
       <<K_frequencyPenalty, Int2Num(0)>>,
       <<K_mirostat, Int2Num(0)>>,
       <<K_mirostatTau, Int2Num(5)>>,
       <<K_mirostatEta, Num(1, 1)>>,
       <<K_penalizeNewline, Bool(FALSE)>>,
       <<K_stopSequences, Arr(<<>>)>>,
       <<K_trimWhitespace, Bool(TRUE)>> >>

\* Type.Number / Type.Integer / Type.Boolean / Type.Array(Type.String()) of a field
TypeOf(key) ==
    CASE key \in {K_topK, K_maxTokens, K_repeatPenaltyNum, K_mirostat, K_seed} -> "integer"
      [] key \in {K_penalizeNewline, K_trimWhitespace} -> "boolean"
      [] key = K_stopSequences -> "array"
      [] OTHER -> "number"

\* Type.Object({...}).properties built over a defaults table: one property per
\* PromtValue entry, its bounds spread in, its default taken from the table
\* (seed has none).
Property(entry, defaults) ==
    <<entry[1],
      [type |-> TypeOf(entry[1]),
       minimum |-> entry[2].minimum,
       maximum |-> entry[2].maximum,
       default |-> IF ObjHas(defaults, entry[1]) THEN Some(ObjGet(defaults, entry[1])) ELSE None]>>
SchemaOver(values, defaults) == [n \in 1..Len(values) |-> Property(values[n], defaults)]
SchemaProperties(defaults) == SchemaOver(PromtValue, defaults)

SPromtOptions == SchemaProperties(defVal)
SPromtOptionsJson == SchemaProperties(defValJson)

\* Value.Check(propertySchema, value)
ValueCheck(schema, v) ==
    CASE schema.type = "number" ->
            /\ v.t = "num"
            /\ Has(schema.minimum) => NumGe(v, Val(schema.minimum))
            /\ Has(schema.maximum) => NumLe(v, Val(schema.maximum))
      [] schema.type = "integer" ->
            /\ IsInteger(v)
            /\ Has(schema.minimum) => NumGe(v, Val(schema.minimum))
            /\ Has(schema.maximum) => NumLe(v, Val(schema.maximum))
      [] schema.type = "boolean" -> v.t = "bool"
      [] schema.type = "array" ->
            /\ v.t = "arr"
            /\ \A n \in 1..Len(v.a) : v.a[n].t = "str"

(***************************************************************************)
(* PromtOptionsParse.  raw is optional (the argument may be left out) and  *)
(* may be any value.                                                       *)
(***************************************************************************)
\* input[key]
Prop(input, key) == IF ObjHas(input, key) THEN ObjGet(input, key) ELSE Undefined

\* a loop body that gives the default only to a field left out, not to one
\* supplied with a value that fails the check
DecideFieldStrict(key, inputValue, defaultValue, schema, all, result) ==
    IF inputValue = Undefined
    THEN IF all THEN ObjSet(result, key, defaultValue) ELSE result
    ELSE IF ObjHas(schema, key) /\ ValueCheck(ObjGet(schema, key), inputValue)
         THEN ObjSet(result, key, inputValue)
         ELSE result

\* a loop body that stores the default for a value that fails the check,
\* asked for or not
DecideFieldDefaulting(key, inputValue, defaultValue, schema, all, result) ==
    IF inputValue = Undefined
    THEN IF all THEN ObjSet(result, key, defaultValue) ELSE result
    ELSE IF ObjHas(schema, key) /\ ValueCheck(ObjGet(schema, key), inputValue)
         THEN ObjSet(result, key, inputValue)
         ELSE ObjSet(result, key, defaultValue)

\* the body of the loop over Object.keys(defaults), for one key
DecideField(key, inputValue, defaultValue, schema, all, result) ==
    IF inputValue = Undefined
    THEN IF all THEN ObjSet(result, key, defaultValue) ELSE result
    ELSE IF ObjHas(schema, key) /\ ValueCheck(ObjGet(schema, key), inputValue)
         THEN ObjSet(result, key, inputValue)
         ELSE IF all THEN ObjSet(result, key, defaultValue) ELSE result

ParseField(key, input, schema, defaults, all, result) ==
    DecideField(key, Prop(input, key), ObjGet(defaults, key), schema, all, result)

RECURSIVE ParseFields(_, _, _, _, _, _)
ParseFields(keys, input, schema, defaults, all, result) ==
    IF keys = <<>> THEN result
    ELSE ParseFields(Tail(keys), input, schema, defaults, all,
                     ParseField(keys[1], input, schema, defaults, all, result))

\* a seed step that takes any seed supplied
DecideSeedAny(seed, schema, result) ==
    IF seed # Undefined THEN ObjSet(result, K_seed, seed) ELSE result

\* the seed step that follows the loop
DecideSeed(seed, schema, result) ==
    IF seed # Undefined /\ ObjHas(schema, K_seed) /\ ValueCheck(ObjGet(schema, K_seed), seed)
    THEN ObjSet(result, K_seed, seed)
    ELSE result

ParseSeed(input, schema, result) == DecideSeed(Prop(input, K_seed), schema, result)

\* a loop that takes the fields raw holds first, in raw's order
RawOrderFirst(inputKeys, defaultKeys) ==
    SelectSeq(inputKeys, LAMBDA k : \E n \in 1..Len(defaultKeys) : defaultKeys[n] = k)
        \o SelectSeq(defaultKeys, LAMBDA k : \A n \in 1..Len(inputKeys) : inputKeys[n] # k)
ParseWithRawOrder(schema, defaults, input, all) ==
    ParseSeed(input, schema,
              ParseFields(RawOrderFirst(ObjKeys(input), ObjKeys(defaults)),
                          input, schema, defaults, all, <<>>))

\* the function once schema, defaults and input are chosen
ParseWith(schema, defaults, input, all) ==
    ParseSeed(input, schema,
              ParseFields(ObjKeys(defaults), input, schema, defaults, all, <<>>))

\* the function with the core defaults under either profile
PromtOptionsParseCore(u, rawArg, all) ==
    ParseWith(IF u = "core" THEN SPromtOptions ELSE SPromtOptionsJson,
              defVal,
              IF Has(rawArg) /\ Val(rawArg).t = "obj" THEN Val(rawArg).o ELSE <<>>,
              all)

PromtOptionsParse(u, rawArg, all) ==
    ParseWith(IF u = "core" THEN SPromtOptions ELSE SPromtOptionsJson,
              IF u = "core" THEN defVal ELSE defValJson,
              IF Has(rawArg) /\ Val(rawArg).t = "obj" THEN Val(rawArg).o ELSE <<>>,
              all)

(***************************************************************************)
(* The option line codec: parseOptionValue, parseOptionsToObject.          *)
(***************************************************************************)
T_true == <<"t", "r", "u", "e">>
T_false == <<"f", "a", "l", "s", "e">>

\* the quote stripping: slice(1, -1) of a text that starts and ends with the
\* same quote character
CleanValue(v) ==
    IF \/ StartsWith(v, <<"\"">>) /\ EndsWith(v, <<"\"">>)
       \/ StartsWith(v, <<"'">>) /\ EndsWith(v, <<"'">>)
    THEN SubSeq(v, 2, Len(v) - 1)
    ELSE v

\* the boolean branch, then the number branch, on the quote-stripped text
\* a decoder that tries the number before the boolean words
DecodeScalarNumberFirst(cleanValue) ==
    LET lower == ToLowerCase(cleanValue)
        number == ParseFloat(ReplaceFirstComma(cleanValue))
    IN IF Has(number) THEN number
       ELSE IF lower \in {T_true, <<"1">>, <<"y">>} THEN Some(Bool(TRUE))
       ELSE IF lower \in {T_false, <<"0">>, <<"n">>} THEN Some(Bool(FALSE))
       ELSE None

DecodeScalar(cleanValue) ==
    LET lower == ToLowerCase(cleanValue)
    IN IF lower \in {T_true, <<"1">>, <<"y">>} THEN Some(Bool(TRUE))
       ELSE IF lower \in {T_false, <<"0">>, <<"n">>} THEN Some(Bool(FALSE))
       ELSE ParseFloat(ReplaceFirstComma(cleanValue))

\* the array branch: json is JSON.parse(valueStr) when the text starts with "["
\* and parses, None when the text does not start with "[" or JSON.parse throws
DecodeArray(v, json) ==
    IF Has(json) /\ Val(json).t = "arr" THEN json ELSE DecodeScalar(CleanValue(v))

\* None is undefined
parseOptionValue(v) ==
    IF v = <<>> THEN None
    ELSE DecodeArray(v, IF StartsWith(v, <<"[">>) THEN JsonParse(v) ELSE None)

\* options[key] = value, when a value was decoded
\* an assignment that keeps the value a key already has
SetOptionFirst(options, key, value) ==
    IF Has(value) /\ ~ObjHas(options, key) THEN ObjSet(options, key, Val(value)) ELSE options

SetOption(options, key, value) ==
    IF Has(value) THEN ObjSet(options, key, Val(value)) ELSE options

\* the body of the loop over the lines, for one line
ParseOptionLine(line, options) ==
    LET trimmed == Trim(line)
        eqIndex == IndexOf(trimmed, "=")
    IN IF trimmed = <<>> \/ eqIndex <= 0 THEN options
       ELSE SetOption(options, Trim(SubSeq(trimmed, 1, eqIndex)),
                      parseOptionValue(Trim(SubstringFrom(trimmed, eqIndex + 1))))

RECURSIVE ParseOptionLines(_, _)
ParseOptionLines(lines, options) ==
    IF lines = <<>> THEN options
    ELSE ParseOptionLines(Tail(lines), ParseOptionLine(lines[1], options))

parseOptionsToObject(content) == ParseOptionLines(SplitLines(content), <<>>)

(***************************************************************************)
(* GrammarCheck: the empty text is the empty result.                       *)
(***************************************************************************)
Indent2 == <<" ", " ">>

Pretty(parsed) ==
    IF Has(parsed) THEN JsonStringify(Val(parsed), Indent2, <<>>) ELSE <<>>

GrammarCheck(rawText) ==
    IF rawText = <<>> \/ Trim(rawText) = <<>> THEN <<>> ELSE Pretty(JsonParse(rawText))

(***************************************************************************)
(* The prompt record and finishSection.                                    *)
(***************************************************************************)
EmptyPromt == [system |-> None, user |-> None, options |-> None,
               segment |-> None, grammar |-> None]

\* a text that is set and not empty
Truthy(o) == Has(o) /\ Val(o) # <<>>

\* finishSection storing the decoded lines as they are, unvalidated
FinishOptionsUnchecked(u, content) == parseOptionsToObject(content)

\* finishSection asking PromtOptionsParse for the defaults
FinishOptionsAll(u, content) ==
    PromtOptionsParse(u, Some(Obj(parseOptionsToObject(content))), TRUE)

\* the options branch of finishSection: defaults are not asked for
FinishOptions(u, content) ==
    PromtOptionsParse(u, Some(Obj(parseOptionsToObject(content))), FALSE)

\* the grammar branch of finishSection: stored only when validation gave a text
\* a grammar branch that stores whatever validation returned
FinishGrammarAlways(promt, validated) == [promt EXCEPT !.grammar = Some(validated)]

FinishGrammar(promt, validated) ==
    IF validated # <<>> THEN [promt EXCEPT !.grammar = Some(validated)] ELSE promt

\* a finishSection whose segment branch does not look at the name
FinishContentUnnamed(promt, section, content, u, segmentName) ==
    IF section = "system" THEN [promt EXCEPT !.system = Some(content)]
    ELSE IF section = "user" THEN [promt EXCEPT !.user = Some(content)]
    ELSE IF section = "segment"
         THEN [promt EXCEPT !.segment =
                  Some(ObjSet(IF Has(promt.segment) THEN Val(promt.segment) ELSE <<>>,
                              IF Has(segmentName) THEN Val(segmentName) ELSE <<>>,
                              content))]
    ELSE IF section = "options"
         THEN [promt EXCEPT !.options = Some(FinishOptions(u, content))]
    ELSE IF section = "grammar" THEN FinishGrammar(promt, GrammarCheck(content))
    ELSE promt

\* a finishSection whose options branch adds the new keys to the ones the
\* record has
RECURSIVE SetAll(_, _)
SetAll(base, entries) ==
    IF entries = <<>> THEN base
    ELSE SetAll(ObjSet(base, entries[1][1], entries[1][2]), Tail(entries))

FinishContentMerging(promt, section, content, u, segmentName) ==
    IF section = "system" THEN [promt EXCEPT !.system = Some(content)]
    ELSE IF section = "user" THEN [promt EXCEPT !.user = Some(content)]
    ELSE IF section = "segment" /\ Truthy(segmentName)
         THEN [promt EXCEPT !.segment =
                  Some(ObjSet(IF Has(promt.segment) THEN Val(promt.segment) ELSE <<>>,
                              Val(segmentName), content))]
    ELSE IF section = "options"
         THEN [promt EXCEPT !.options =
                  Some(SetAll(IF Has(promt.options) THEN Val(promt.options) ELSE <<>>,
                              FinishOptions(u, content)))]
    ELSE IF section = "grammar" THEN FinishGrammar(promt, GrammarCheck(content))
    ELSE promt

FinishContent(promt, section, content, u, segmentName) ==
    IF section = "system" THEN [promt EXCEPT !.system = Some(content)]
    ELSE IF section = "user" THEN [promt EXCEPT !.user = Some(content)]
    ELSE IF section = "segment" /\ Truthy(segmentName)
         THEN [promt EXCEPT !.segment =
                  Some(ObjSet(IF Has(promt.segment) THEN Val(promt.segment) ELSE <<>>,
                              Val(segmentName), content))]
    ELSE IF section = "options"
         THEN [promt EXCEPT !.options = Some(FinishOptions(u, content))]
    ELSE IF section = "grammar" THEN FinishGrammar(promt, GrammarCheck(content))
    ELSE promt

finishSection(promt, section, lines, u, segmentName) ==
    FinishContent(promt, section, Trim(JoinLines(lines)), u, segmentName)

(***************************************************************************)
(* parse: the loop over the lines as a step on the locals, and the code    *)
(* after the loop.                                                         *)
(***************************************************************************)
M_begin == <<"$", "$", "b", "e", "g", "i", "n">>
M_end == <<"$", "$", "e", "n", "d">>
M_system == <<"$", "$", "s", "y", "s", "t", "e", "m">>
M_user == <<"$", "$", "u", "s", "e", "r">>
M_options == <<"$", "$", "o", "p", "t", "i", "o", "n", "s">>
M_grammar == <<"$", "$", "g", "r", "a", "m", "m", "a", "r">>
M_segment == <<"$", "$", "s", "e", "g", "m", "e", "n", "t", "=">>

\* the flush every marker starts with
\* a flush that does not look at the buffer
FlushAlways(st, u) ==
    IF st.currentSection # "none"
    THEN finishSection(Val(st.currentPromt), st.currentSection, st.sectionContent,
                       u, st.currentSegmentName)
    ELSE Val(st.currentPromt)

Flush(st, u) ==
    IF st.currentSection # "none" /\ Len(st.sectionContent) > 0
    THEN finishSection(Val(st.currentPromt), st.currentSection, st.sectionContent,
                       u, st.currentSegmentName)
    ELSE Val(st.currentPromt)

\* a push that does not look at the user text
PushAlways(ps, promt) == Append(ps, promt)

\* a push that puts the record in front of the ones pushed before
PushFront(ps, promt) == IF Truthy(promt.user) THEN <<promt>> \o ps ELSE ps

\* promts.push(currentPromt) when its user is truthy
Push(ps, promt) == IF Truthy(promt.user) THEN Append(ps, promt) ELSE ps

\* a close that leaves the buffered section out of the record
EmitUnflushed(st, u) ==
    IF st.inBlock /\ Has(st.currentPromt)
    THEN Push(st.promts, Val(st.currentPromt))
    ELSE st.promts

\* promts after the block is closed, by a marker or by the end of the input
Emit(st, u) ==
    IF st.inBlock /\ Has(st.currentPromt) THEN Push(st.promts, Flush(st, u)) ELSE st.promts

\* a section marker: flush, then switch
Switch(st, u, section, name) ==
    [st EXCEPT !.currentPromt = Some(Flush(st, u)),
               !.currentSection = section,
               !.currentSegmentName = name,
               !.sectionContent = <<>>]

\* $$begin and $$end: the open block is closed, and a new one is opened or not
Boundary(emitted, begin) ==
    [promts |-> emitted, inBlock |-> begin,
     currentPromt |-> IF begin THEN Some(EmptyPromt) ELSE None,
     currentSection |-> "none", currentSegmentName |-> None, sectionContent |-> <<>>]

\* the section a section marker names, and the segment name it carries
SectionOf(trimmed) ==
    CASE trimmed = M_system -> "system"
      [] trimmed = M_user -> "user"
      [] trimmed = M_options -> "options"
      [] trimmed = M_grammar -> "grammar"
      [] OTHER -> "segment"
NameOf(trimmed) ==
    IF trimmed \in {M_system, M_user, M_options, M_grammar} THEN None
    ELSE Some(Trim(SubstringFrom(trimmed, Len(M_segment))))

IsSectionMarker(trimmed) ==
    \/ trimmed \in {M_system, M_user, M_options, M_grammar}
    \/ StartsWith(trimmed, M_segment)

\* an iteration that compares the line as it is, untrimmed, with the markers
StepLineUntrimmed(st, line, u) ==
    IF line \in {M_begin, M_end} THEN Boundary(Emit(st, u), line = M_begin)
    ELSE IF ~st.inBlock \/ ~Has(st.currentPromt) THEN st
    ELSE IF IsSectionMarker(line)
    THEN Switch(st, u, SectionOf(line), NameOf(line))
    ELSE IF st.currentSection # "none"
    THEN [st EXCEPT !.sectionContent = Append(@, line)]
    ELSE st

\* an iteration that buffers a line of a block whether or not a section is
\* selected
StepLineBuffersAll(st, line, u) ==
    LET trimmed == Trim(line)
    IN IF trimmed \in {M_begin, M_end} THEN Boundary(Emit(st, u), trimmed = M_begin)
       ELSE IF ~st.inBlock \/ ~Has(st.currentPromt) THEN st
       ELSE IF IsSectionMarker(trimmed)
       THEN Switch(st, u, SectionOf(trimmed), NameOf(trimmed))
       ELSE [st EXCEPT !.sectionContent = Append(@, line)]

\* one iteration of the loop
StepLine(st, line, u) ==
    LET trimmed == Trim(line)
    IN IF trimmed \in {M_begin, M_end} THEN Boundary(Emit(st, u), trimmed = M_begin)
       ELSE IF ~st.inBlock \/ ~Has(st.currentPromt) THEN st
       ELSE IF IsSectionMarker(trimmed)
       THEN Switch(st, u, SectionOf(trimmed), NameOf(trimmed))
       ELSE IF st.currentSection # "none"
       THEN [st EXCEPT !.sectionContent = Append(@, line)]
       ELSE st

\* the code after the loop: the value parse returns
\* an end of input that leaves the open block out
AfterLoopClosed(st, u) == st.promts

AfterLoop(st, u) == Emit(st, u)

StartState == [promts |-> <<>>, inBlock |-> FALSE, currentPromt |-> None,
               currentSection |-> "none", currentSegmentName |-> None,
               sectionContent |-> <<>>]

RECURSIVE ParseLoop(_, _, _)
ParseLoop(st, lines, u) ==
    IF lines = <<>> THEN AfterLoop(st, u)
    ELSE ParseLoop(StepLine(st, lines[1], u), Tail(lines), u)

parse(content, u) == ParseLoop(StartState, SplitLines(content), u)

PromtLoad(rawText, u) == parse(rawText, u)

(***************************************************************************)
(* serialize and serializeOptionValue.                                     *)
(***************************************************************************)
serializeOptionValue(key, value) ==
    IF value = Undefined THEN key \o <<"=">>
    ELSE IF value.t = "arr" THEN key \o <<"=">> \o JsonStringify(value, <<>>, <<>>)
    ELSE IF value.t = "bool" THEN key \o <<"=">> \o (IF value.b THEN T_true ELSE T_false)
    ELSE IF value.t = "infinity"
         THEN key \o <<"=">> \o (IF value.neg THEN <<"-">> ELSE <<>>) \o T_Infinity
    ELSE key \o <<"=">> \o NumberToString(value)

\* a field pushed on the result: join writes undefined as the empty text
TextOf(o) == IF Has(o) THEN Val(o) ELSE <<>>

SerializeOptions(promt) ==
    IF Has(promt.options)
    THEN <<M_options>> \o [n \in 1..Len(Val(promt.options)) |->
                             serializeOptionValue(Val(promt.options)[n][1],
                                                  Val(promt.options)[n][2])]
    ELSE <<>>

RECURSIVE SerializeSegments(_)
SerializeSegments(entries) ==
    IF entries = <<>> THEN <<>>
    ELSE <<M_segment \o entries[1][1], entries[1][2]>> \o SerializeSegments(Tail(entries))

\* a loop body that writes the system section before the options
SerializeOneSystemFirst(promt) ==
    <<M_begin>>
    \o (IF Truthy(promt.system) THEN <<M_system, Val(promt.system)>> ELSE <<>>)
    \o SerializeOptions(promt)
    \o <<M_user, TextOf(promt.user)>>
    \o (IF Truthy(promt.grammar) THEN <<M_grammar, Val(promt.grammar)>> ELSE <<>>)
    \o (IF Has(promt.segment) THEN SerializeSegments(Val(promt.segment)) ELSE <<>>)
    \o <<M_end>>

\* a loop body that writes a system or grammar section for an empty text too
SerializeOnePresent(promt) ==
    <<M_begin>>
    \o SerializeOptions(promt)
    \o (IF Has(promt.system) THEN <<M_system, Val(promt.system)>> ELSE <<>>)
    \o <<M_user, TextOf(promt.user)>>
    \o (IF Has(promt.grammar) THEN <<M_grammar, Val(promt.grammar)>> ELSE <<>>)
    \o (IF Has(promt.segment) THEN SerializeSegments(Val(promt.segment)) ELSE <<>>)
    \o <<M_end>>

\* the lines pushed for one record
SerializeOne(promt) ==
    <<M_begin>>
    \o SerializeOptions(promt)
    \o (IF Truthy(promt.system) THEN <<M_system, Val(promt.system)>> ELSE <<>>)
    \o <<M_user, TextOf(promt.user)>>
    \o (IF Truthy(promt.grammar) THEN <<M_grammar, Val(promt.grammar)>> ELSE <<>>)
    \o (IF Has(promt.segment) THEN SerializeSegments(Val(promt.segment)) ELSE <<>>)
    \o <<M_end>>

RECURSIVE SerializeAll(_)
SerializeAll(ps) ==
    IF ps = <<>> THEN <<>> ELSE SerializeOne(ps[1]) \o SerializeAll(Tail(ps))

serialize(ps) == JoinLines(SerializeAll(ps))

PromtStore(ps) == serialize(ps)

(***************************************************************************)
(* The vendor adapters.  Each is a run of guarded copies, written here as  *)
(* rows <<field of the source, key of the result, kind>>: a scalar is      *)
(* copied when it is not undefined, an array or an object when it is not   *)
(* undefined and not empty.                                                *)
(***************************************************************************)
K_tokenBias == <<"t", "o", "k", "e", "n", "B", "i", "a", "s">>
K_evaluationPriority == <<"e", "v", "a", "l", "u", "a", "t", "i", "o", "n", "P", "r", "i", "o", "r", "i", "t", "y">>
K_contextShiftSize == <<"c", "o", "n", "t", "e", "x", "t", "S", "h", "i", "f", "t", "S", "i", "z", "e">>
K_disableContextShift == <<"d", "i", "s", "a", "b", "l", "e", "C", "o", "n", "t", "e", "x", "t", "S", "h", "i", "f", "t">>

\* .length > 0, Object.keys(...).length > 0
IsEmptyValue(kind, value) ==
    \/ kind = "array" /\ Len(value.a) = 0
    \/ kind = "object" /\ Len(value.o) = 0

\* if (options.<field> !== undefined ...) result.<key> = options.<field>
\* a copy that leaves out the test for an empty list or map
CopyValueAny(result, key, kind, value) ==
    IF value = Undefined THEN result ELSE ObjSet(result, key, value)

CopyValue(result, key, kind, value) ==
    IF value = Undefined THEN result
    ELSE IF IsEmptyValue(kind, value) THEN result
    ELSE ObjSet(result, key, value)

RECURSIVE CopyFields(_, _, _)
CopyFields(fields, options, result) ==
    IF fields = <<>> THEN result
    ELSE CopyFields(Tail(fields), options,
                    CopyValue(result, fields[1][2], fields[1][3], Prop(options, fields[1][1])))

OpenAiFields ==
    << <<K_temperature, <<"t", "e", "m", "p", "e", "r", "a", "t", "u", "r", "e">>, "scalar">>,
       <<K_topP, <<"t", "o", "p", "_", "p">>, "scalar">>,
       <<K_maxTokens, <<"m", "a", "x", "_", "t", "o", "k", "e", "n", "s">>, "scalar">>,
       <<K_frequencyPenalty, <<"f", "r", "e", "q", "u", "e", "n", "c", "y", "_", "p", "e", "n", "a", "l", "t", "y">>, "scalar">>,
       <<K_presencePenalty, <<"p", "r", "e", "s", "e", "n", "c", "e", "_", "p", "e", "n", "a", "l", "t", "y">>, "scalar">>,
       <<K_seed, <<"s", "e", "e", "d">>, "scalar">>,
       <<K_stopSequences, <<"s", "t", "o", "p">>, "array">>,
       <<K_tokenBias, <<"l", "o", "g", "i", "t", "_", "b", "i", "a", "s">>, "object">> >>

ToPromtOptionsOpenAi(options) == CopyFields(OpenAiFields, options, <<>>)

OllamaFields ==
    << <<K_temperature, <<"t", "e", "m", "p", "e", "r", "a", "t", "u", "r", "e">>, "scalar">>,
       <<K_topP, <<"t", "o", "p", "_", "p">>, "scalar">>,
       <<K_topK, <<"t", "o", "p", "_", "k">>, "scalar">>,
       <<K_minP, <<"m", "i", "n", "_", "p">>, "scalar">>,
       <<K_maxTokens, <<"n", "u", "m", "_", "p", "r", "e", "d", "i", "c", "t">>, "scalar">>,
       <<K_repeatPenalty, <<"r", "e", "p", "e", "a", "t", "_", "p", "e", "n", "a", "l", "t", "y">>, "scalar">>,
       <<K_repeatPenaltyNum, <<"r", "e", "p", "e", "a", "t", "_", "l", "a", "s", "t", "_", "n">>, "scalar">>,
       <<K_mirostat, <<"m", "i", "r", "o", "s", "t", "a", "t">>, "scalar">>,
       <<K_mirostatTau, <<"m", "i", "r", "o", "s", "t", "a", "t", "_", "t", "a", "u">>, "scalar">>,
       <<K_mirostatEta, <<"m", "i", "r", "o", "s", "t", "a", "t", "_", "e", "t", "a">>, "scalar">>,
       <<K_seed, <<"s", "e", "e", "d">>, "scalar">>,
       <<K_stopSequences, <<"s", "t", "o", "p">>, "array">>,
       <<K_penalizeNewline, <<"p", "e", "n", "a", "l", "i", "z", "e", "_", "n", "e", "w", "l", "i", "n", "e">>, "scalar">> >>

ToPromtOptionsOllama(options) == CopyFields(OllamaFields, options, <<>>)

LlamaCppFields ==
    << <<K_temperature, <<"t", "e", "m", "p", "e", "r", "a", "t", "u", "r", "e">>, "scalar">>,
       <<K_topP, <<"t", "o", "p", "P">>, "scalar">>,
       <<K_topK, <<"t", "o", "p", "K">>, "scalar">>,
       <<K_minP, <<"m", "i", "n", "P">>, "scalar">>,
       <<K_maxTokens, <<"m", "a", "x", "T", "o", "k", "e", "n", "s">>, "scalar">>,
       <<K_seed, <<"s", "e", "e", "d">>, "scalar">>,
       <<K_trimWhitespace, <<"t", "r", "i", "m", "W", "h", "i", "t", "e", "s", "p", "a", "c", "e", "S", "u", "f", "f", "i", "x">>, "scalar">>,
       <<K_stopSequences, <<"c", "u", "s", "t", "o", "m", "S", "t", "o", "p", "T", "r", "i", "g", "g", "e", "r", "s">>, "array">>,
       <<K_tokenBias, <<"t", "o", "k", "e", "n", "B", "i", "a", "s">>, "object">>,
       <<K_evaluationPriority, <<"e", "v", "a", "l", "u", "a", "t", "i", "o", "n", "P", "r", "i", "o", "r", "i", "t", "y">>, "scalar">>,
       <<K_contextShiftSize, <<"c", "o", "n", "t", "e", "x", "t", "S", "h", "i", "f", "t", "S", "i", "z", "e">>, "scalar">>,
       <<K_disableContextShift, <<"d", "i", "s", "a", "b", "l", "e", "C", "o", "n", "t", "e", "x", "t", "S", "h", "i", "f", "t">>, "scalar">> >>

\* the spreads of the nested repeatPenalty object
RepeatPenaltyFields ==
    << <<K_repeatPenalty, <<"p", "e", "n", "a", "l", "t", "y">>, "scalar">>,
       <<K_repeatPenaltyNum, <<"l", "a", "s", "t", "T", "o", "k", "e", "n", "s">>, "scalar">>,
       <<K_frequencyPenalty, <<"f", "r", "e", "q", "u", "e", "n", "c", "y", "P", "e", "n", "a", "l", "t", "y">>, "scalar">>,
       <<K_presencePenalty, <<"p", "r", "e", "s", "e", "n", "c", "e", "P", "e", "n", "a", "l", "t", "y">>, "scalar">>,
       <<K_penalizeNewline, <<"p", "e", "n", "a", "l", "i", "z", "e", "N", "e", "w", "L", "i", "n", "e">>, "scalar">> >>

\* a test that looks at the repeatPenalty field alone
hasRepeatPenaltyOnly(options) == Prop(options, K_repeatPenalty) # Undefined

hasRepeatPenalty(options) ==
    \E n \in 1..Len(RepeatPenaltyFields) : Prop(options, RepeatPenaltyFields[n][1]) # Undefined

WithRepeatPenalty(result, options) ==
    IF hasRepeatPenalty(options)
    THEN ObjSet(result, K_repeatPenalty, Obj(CopyFields(RepeatPenaltyFields, options, <<>>)))
    ELSE result

ToPromtOptionsLlamaCpp(options) ==
    WithRepeatPenalty(CopyFields(LlamaCppFields, options, <<>>), options)

(***************************************************************************)
(* The lines a run of parse reads: every marker (one with white space      *)
(* around it, one segment marker with a name and one without), text lines, *)
(* option lines and a line of JSON.                                        *)
(***************************************************************************)
L_begin == <<"$", "$", "b", "e", "g", "i", "n">>
L_end == <<"$", "$", "e", "n", "d">>
L_system == <<"$", "$", "s", "y", "s", "t", "e", "m">>
L_user == <<"$", "$", "u", "s", "e", "r">>
L_userPadded == <<" ", " ", "$", "$", "u", "s", "e", "r", " ">>
L_options == <<"$", "$", "o", "p", "t", "i", "o", "n", "s">>
L_grammar == <<"$", "$", "g", "r", "a", "m", "m", "a", "r">>
L_segmentA == <<"$", "$", "s", "e", "g", "m", "e", "n", "t", "=", " ", "a">>
L_segmentNoName == <<"$", "$", "s", "e", "g", "m", "e", "n", "t", "=">>
L_hi == <<"h", "i">>
L_blank == <<>>
L_padded == <<" ", "x", " ">>
L_temperature == <<"t", "e", "m", "p", "e", "r", "a", "t", "u", "r", "e", "=", "0", ".", "7">>
L_temperatureZero == <<"t", "e", "m", "p", "e", "r", "a", "t", "u", "r", "e", "=", "0", ".", "0">>
L_mirostat == <<"m", "i", "r", "o", "s", "t", "a", "t", "=", "1">>
L_topPHigh == <<"t", "o", "p", "P", "=", "5">>
L_unknown == <<"f", "o", "o", "=", "2">>
L_stop == <<"s", "t", "o", "p", "S", "e", "q", "u", "e", "n", "c", "e", "s", "=", "[", "\"", "a", "\"", "]">>
L_json == <<"{", "\"", "a", "\"", ":", "1", "}">>

MarkerLines == {L_begin, L_end, L_system, L_user, L_userPadded, L_options,
                L_grammar, L_segmentA, L_segmentNoName}
TextLines == {L_hi, L_blank, L_padded, L_temperature, L_temperatureZero,
              L_mirostat, L_topPHigh, L_unknown, L_stop, L_json}
Lines == MarkerLines \cup TextLines

Profiles == {"core", "json"}

(***************************************************************************)
(* parse as a state machine: one action per branch of the loop body, and   *)
(* Return for the code after the loop.                                     *)
(***************************************************************************)
State == [promts |-> promts, inBlock |-> inBlock, currentPromt |-> currentPromt,
          currentSection |-> currentSection,
          currentSegmentName |-> currentSegmentName,
          sectionContent |-> sectionContent]

ParseIdle ==
    /\ promts = <<>> /\ inBlock = FALSE /\ currentPromt = None
    /\ currentSection = "none" /\ currentSegmentName = None
    /\ sectionContent = <<>> /\ i = 0 /\ returned = FALSE
OptIdle == raw = None /\ optUse = "core" /\ useAllOptions = TRUE /\ optResult = None
DecIdle == valueStr = <<>> /\ decoded = None
CodecIdle == optionLines = <<>> /\ rawOptions = None
StoreIdle == records = <<>> /\ stored = None
VendorIdle == source = <<>> /\ vendor = "none" /\ projected = None
GrammarIdle == grammarText = <<>> /\ checked = None /\ loaded = None
SharedIdle ==
    /\ defaultStops = [u \in Profiles |-> <<>>]
    /\ kept = None /\ again = None
TextIdle == document = <<>> /\ output = None
ProfileIdle ==
    /\ coreRun = StartState /\ jsonRun = StartState
    /\ linesRead = 0 /\ bothReturned = None
CallIdle ==
    /\ CodecIdle /\ StoreIdle /\ VendorIdle /\ GrammarIdle /\ SharedIdle
    /\ TextIdle
    /\ ProfileIdle

Init == ParseIdle /\ use \in Profiles /\ OptIdle /\ DecIdle /\ CallIdle

\* the locals take the values of st
Becomes(st) ==
    /\ promts' = st.promts
    /\ inBlock' = st.inBlock
    /\ currentPromt' = st.currentPromt
    /\ currentSection' = st.currentSection
    /\ currentSegmentName' = st.currentSegmentName
    /\ sectionContent' = st.sectionContent

\* lines[i] is read and the loop body runs on it
Read(line) ==
    /\ ~returned
    /\ i < MaxLines
    /\ Becomes(StepLine(State, line, use))
    /\ i' = i + 1
    /\ UNCHANGED <<use, returned>>
    /\ UNCHANGED optVars /\ UNCHANGED decVars /\ UNCHANGED callVars

ReadBegin == \E line \in Lines : Trim(line) = M_begin /\ Read(line)
ReadEnd == \E line \in Lines : Trim(line) = M_end /\ Read(line)
ReadOutside ==
    \E line \in Lines :
        /\ Trim(line) \notin {M_begin, M_end}
        /\ ~inBlock
        /\ Read(line)
ReadSystem == \E line \in Lines : inBlock /\ Trim(line) = M_system /\ Read(line)
ReadUser == \E line \in Lines : inBlock /\ Trim(line) = M_user /\ Read(line)
ReadOptions == \E line \in Lines : inBlock /\ Trim(line) = M_options /\ Read(line)
ReadGrammar == \E line \in Lines : inBlock /\ Trim(line) = M_grammar /\ Read(line)
ReadSegment ==
    \E line \in Lines : inBlock /\ StartsWith(Trim(line), M_segment) /\ Read(line)
ReadContent ==
    \E line \in Lines :
        /\ Trim(line) \notin {M_begin, M_end}
        /\ inBlock /\ ~IsSectionMarker(Trim(line))
        /\ currentSection # "none"
        /\ Len(sectionContent) < MaxContent
        /\ Read(line)
ReadIgnored ==
    \E line \in Lines :
        /\ Trim(line) \notin {M_begin, M_end}
        /\ inBlock /\ ~IsSectionMarker(Trim(line))
        /\ currentSection = "none"
        /\ Read(line)

\* the input ends: the code after the loop, and the return
Return ==
    /\ ~returned
    /\ promts' = AfterLoop(State, use)
    /\ returned' = TRUE
    /\ UNCHANGED <<inBlock, currentPromt, currentSection, currentSegmentName,
                   sectionContent, i, use>>
    /\ UNCHANGED optVars /\ UNCHANGED decVars /\ UNCHANGED callVars

Next ==
    \/ ReadBegin \/ ReadEnd \/ ReadOutside
    \/ ReadSystem \/ ReadUser \/ ReadOptions \/ ReadGrammar \/ ReadSegment
    \/ ReadContent \/ ReadIgnored
    \/ Return

Spec == Init /\ [][Next]_vars

(***************************************************************************)
(* A caller of PromtOptionsParse: it builds the raw argument (an object,   *)
(* entry by entry, or a value that is no object, or nothing), then calls.  *)
(* optResult is None before the call and Some(result) after it.            *)
(***************************************************************************)
K_foo == <<"f", "o", "o">>

RawKeys == {K_temperature, K_topK, K_penalizeNewline, K_stopSequences, K_seed, K_foo}
RawValues == {Num(7, 1), Int2Num(3), Int2Num(-1), Bool(TRUE),
              Arr(<<Str(<<"a">>)>>), Arr(<<Int2Num(1)>>), Undefined}
NonObjects == {Null, Str(<<"a">>), Int2Num(3), Bool(TRUE), Arr(<<Int2Num(1)>>)}

\* the entries of raw when it is an object or not given yet
RawEntries ==
    IF ~Has(raw) THEN Some(<<>>)
    ELSE IF Val(raw).t = "obj" THEN Some(Val(raw).o)
    ELSE None

InitOptions ==
    /\ ParseIdle /\ use = "core" /\ DecIdle /\ CallIdle
    /\ raw = None /\ optResult = None
    /\ optUse \in Profiles /\ useAllOptions \in BOOLEAN

RawSet ==
    \E k \in RawKeys, v \in RawValues :
        /\ optResult = None
        /\ RawEntries # None
        /\ Len(Val(RawEntries)) < MaxRawKeys
        /\ raw' = Some(Obj(ObjSet(Val(RawEntries), k, v)))
        /\ UNCHANGED <<optUse, useAllOptions, optResult>>
        /\ UNCHANGED parseVars /\ UNCHANGED decVars /\ UNCHANGED callVars

RawNonObject ==
    \E v \in NonObjects :
        /\ optResult = None
        /\ raw = None
        /\ raw' = Some(v)
        /\ UNCHANGED <<optUse, useAllOptions, optResult>>
        /\ UNCHANGED parseVars /\ UNCHANGED decVars /\ UNCHANGED callVars

CallPromtOptionsParse ==
    /\ optResult = None
    /\ optResult' = Some(PromtOptionsParse(optUse, raw, useAllOptions))
    /\ UNCHANGED <<raw, optUse, useAllOptions>>
    /\ UNCHANGED parseVars /\ UNCHANGED decVars /\ UNCHANGED callVars

NextOptions == RawSet \/ RawNonObject \/ CallPromtOptionsParse

SpecOptions == InitOptions /\ [][NextOptions]_vars

(***************************************************************************)
(* A caller of parseOptionValue: it starts from a text, types characters   *)
(* after it, then calls.  decoded is None before the call and              *)
(* Some(result) after it, result being None for undefined.                 *)
(***************************************************************************)
V_stopArray == <<"[", "\"", "a", "\"", ",", "\"", "b", "\"", "]">>
V_Y == <<"Y">>
V_ratio == <<"1", ",", "5">>
V_True == <<"T", "r", "u", "e">>
V_false == <<"f", "a", "l", "s", "e">>
V_quotedN == <<"'", "n", "'">>
V_zero == <<"0">>
V_infinity == <<"-", "I", "n", "f", "i", "n", "i", "t", "y">>
V_exponent == <<"1", ".", "5", "e", "2", "x">>
V_bad == <<"b", "a", "d">>

ValueSeeds == {<<>>, V_stopArray, V_Y, V_ratio, V_True, V_false, V_quotedN, V_zero,
               V_infinity, V_exponent, V_bad}
ValueChars == {"[", "]", "\"", "'", "1", "5", ",", ".", "y", "x"}

InitDecode ==
    /\ ParseIdle /\ use = "core" /\ OptIdle /\ CallIdle
    /\ valueStr \in ValueSeeds
    /\ decoded = None

Type ==
    \E c \in ValueChars :
        /\ decoded = None
        /\ Len(valueStr) < MaxValueLen
        /\ valueStr' = Append(valueStr, c)
        /\ UNCHANGED decoded
        /\ UNCHANGED parseVars /\ UNCHANGED optVars /\ UNCHANGED callVars

CallParseOptionValue ==
    /\ decoded = None
    /\ decoded' = Some(parseOptionValue(valueStr))
    /\ UNCHANGED valueStr
    /\ UNCHANGED parseVars /\ UNCHANGED optVars /\ UNCHANGED callVars

NextDecode == Type \/ CallParseOptionValue

SpecDecode == InitDecode /\ [][NextDecode]_vars

(***************************************************************************)
(* A caller of parseOptionsToObject: it writes lines, joins them and       *)
(* calls.  rawOptions is None before the call and Some(result) after it.   *)
(***************************************************************************)
O_temperature == <<"t", "e", "m", "p", "e", "r", "a", "t", "u", "r", "e", "=", "0", ".", "7">>
O_temperaturePadded == <<" ", "t", "e", "m", "p", "e", "r", "a", "t", "u", "r", "e", " ", "=", " ", "0", ".", "9", " ">>
O_temperatureBad == <<"t", "e", "m", "p", "e", "r", "a", "t", "u", "r", "e", "=", "b", "a", "d">>
O_temperatureEmpty == <<"t", "e", "m", "p", "e", "r", "a", "t", "u", "r", "e", "=">>
O_blank == <<" ">>
O_noEquals == <<"t", "o", "p", "K">>
O_equalsFirst == <<" ", "=", "5">>
O_twoEquals == <<"t", "o", "p", "K", "=", "4", "=", "2">>
O_stop == <<"s", "t", "o", "p", "S", "e", "q", "u", "e", "n", "c", "e", "s", "=", "[", "\"", "a", "\"", "]">>
O_flag == <<"f", "l", "a", "g", "=", "Y">>

OptionLines == {O_temperature, O_temperaturePadded, O_temperatureBad, O_temperatureEmpty,
                O_blank, O_noEquals, O_equalsFirst, O_twoEquals, O_stop, O_flag}

InitCodec ==
    /\ ParseIdle /\ use = "core" /\ OptIdle /\ DecIdle /\ ProfileIdle
    /\ SharedIdle /\ TextIdle /\ StoreIdle /\ VendorIdle
    /\ GrammarIdle
    /\ optionLines = <<>> /\ rawOptions = None

WriteOptionLine ==
    \E line \in OptionLines :
        /\ rawOptions = None
        /\ Len(optionLines) < MaxOptionLines
        /\ optionLines' = Append(optionLines, line)
        /\ UNCHANGED rawOptions /\ UNCHANGED storeVars /\ UNCHANGED vendorVars
        /\ UNCHANGED parseVars /\ UNCHANGED optVars /\ UNCHANGED decVars
        /\ UNCHANGED profileVars /\ UNCHANGED textVars /\ UNCHANGED sharedVars
        /\ UNCHANGED grammarVars

CallParseOptionsToObject ==
    /\ rawOptions = None
    /\ rawOptions' = Some(parseOptionsToObject(JoinLines(optionLines)))
    /\ UNCHANGED optionLines /\ UNCHANGED storeVars /\ UNCHANGED vendorVars
    /\ UNCHANGED parseVars /\ UNCHANGED optVars /\ UNCHANGED decVars
    /\ UNCHANGED profileVars /\ UNCHANGED textVars /\ UNCHANGED sharedVars
    /\ UNCHANGED grammarVars

NextCodec == WriteOptionLine \/ CallParseOptionsToObject

SpecCodec == InitCodec /\ [][NextCodec]_vars

(***************************************************************************)
(* A caller of PromtStore: it puts records in a list, then calls.  The     *)
(* records are any a caller can build, those PromtLoad never returns       *)
(* included (an empty user, an empty system, an option without a value).   *)
(* stored is None before the call and Some(text) after it.                 *)
(***************************************************************************)
X_sys == <<"b", "e", " ", "b", "r", "i", "e", "f">>
X_hi == <<"h", "i">>
X_grammar == <<"{", "}">>
X_a == <<"a">>
X_b == <<"b">>
X_one == <<"o", "n", "e">>
X_two == <<"t", "w", "o">>

SampleSystems == {None, Some(<<>>), Some(X_sys)}
SampleUsers == {Some(<<>>), Some(X_hi)}
SampleGrammars == {None, Some(<<>>), Some(X_grammar)}
SampleOptions ==
    {None, Some(<<>>),
     Some(<< <<K_topK, Int2Num(40)>>, <<K_temperature, Num(7, 1)>> >>),
     Some(<< <<K_stopSequences, Arr(<<Str(X_a)>>)>>, <<K_seed, Undefined>> >>)}
SampleSegments ==
    {None, Some(<<>>), Some(<< <<X_b, X_two>>, <<X_a, X_one>> >>)}

\* the records of a call: the full one, the least one, and each field varied
\* from one of the two
FullRecord ==
    [system |-> Some(X_sys), user |-> Some(X_hi),
     options |-> Some(<< <<K_topK, Int2Num(40)>>, <<K_temperature, Num(7, 1)>> >>),
     segment |-> Some(<< <<X_b, X_two>>, <<X_a, X_one>> >>),
     grammar |-> Some(X_grammar)]
LeastRecord == [EmptyPromt EXCEPT !.user = Some(X_hi)]
Varied(r) ==
    {[r EXCEPT !.system = v] : v \in SampleSystems}
    \cup {[r EXCEPT !.user = v] : v \in SampleUsers}
    \cup {[r EXCEPT !.grammar = v] : v \in SampleGrammars}
    \cup {[r EXCEPT !.options = v] : v \in SampleOptions}
    \cup {[r EXCEPT !.segment = v] : v \in SampleSegments}
SampleRecords == Varied(FullRecord) \cup Varied(LeastRecord)

InitStore ==
    /\ ParseIdle /\ use = "core" /\ OptIdle /\ DecIdle /\ ProfileIdle
    /\ SharedIdle /\ TextIdle /\ CodecIdle /\ VendorIdle
    /\ GrammarIdle
    /\ records = <<>> /\ stored = None

AddRecord ==
    \E promt \in SampleRecords :
        /\ stored = None
        /\ Len(records) < MaxRecords
        /\ records' = Append(records, promt)
        /\ UNCHANGED stored /\ UNCHANGED codecVars /\ UNCHANGED vendorVars
        /\ UNCHANGED parseVars /\ UNCHANGED optVars /\ UNCHANGED decVars
        /\ UNCHANGED profileVars /\ UNCHANGED textVars /\ UNCHANGED sharedVars
        /\ UNCHANGED grammarVars

CallPromtStore ==
    /\ stored = None
    /\ stored' = Some(PromtStore(records))
    /\ UNCHANGED records /\ UNCHANGED codecVars /\ UNCHANGED vendorVars
    /\ UNCHANGED parseVars /\ UNCHANGED optVars /\ UNCHANGED decVars
    /\ UNCHANGED profileVars /\ UNCHANGED textVars /\ UNCHANGED sharedVars
    /\ UNCHANGED grammarVars

NextStore == AddRecord \/ CallPromtStore

SpecStore == InitStore /\ [][NextStore]_vars

(***************************************************************************)
(* A caller of the vendor adapters: it sets fields of an options object,   *)
(* or starts from one with every field set, then calls one adapter.        *)
(* projected is None before the call and Some(result) after it.            *)
(***************************************************************************)
SourceKeys ==
    <<K_temperature, K_topP, K_topK, K_minP, K_maxTokens,
      K_repeatPenalty, K_repeatPenaltyNum, K_presencePenalty, K_frequencyPenalty, K_mirostat,
      K_mirostatTau, K_mirostatEta, K_penalizeNewline, K_stopSequences, K_trimWhitespace,
      K_seed, K_tokenBias, K_evaluationPriority, K_contextShiftSize, K_disableContextShift>>

\* a value for the n-th field, a different one for each
SourceValue(n) ==
    CASE SourceKeys[n] = K_stopSequences -> Arr(<<Str(<<"a">>)>>)
      [] SourceKeys[n] = K_tokenBias -> Obj(<< <<<<"7">>, Int2Num(1)>> >>)
      [] SourceKeys[n] = K_penalizeNewline -> Bool(TRUE)
      [] SourceKeys[n] = K_trimWhitespace -> Bool(FALSE)
      [] OTHER -> Int2Num(n)

FullSource == [n \in 1..Len(SourceKeys) |-> <<SourceKeys[n], SourceValue(n)>>]

SourceEntries ==
    {FullSource[n] : n \in 1..Len(FullSource)}
    \cup {<<K_temperature, Undefined>>, <<K_repeatPenalty, Undefined>>,
          <<K_stopSequences, Arr(<<>>)>>, <<K_tokenBias, Obj(<<>>)>>}

InitVendor ==
    /\ ParseIdle /\ use = "core" /\ OptIdle /\ DecIdle /\ ProfileIdle
    /\ SharedIdle /\ TextIdle /\ CodecIdle /\ StoreIdle
    /\ GrammarIdle
    /\ source \in {<<>>, FullSource}
    /\ vendor = "none" /\ projected = None

SourceSet ==
    \E entry \in SourceEntries :
        /\ projected = None
        /\ Len(source) < MaxSourceKeys
        /\ source' = ObjSet(source, entry[1], entry[2])
        /\ UNCHANGED <<vendor, projected>>
        /\ UNCHANGED codecVars /\ UNCHANGED storeVars
        /\ UNCHANGED parseVars /\ UNCHANGED optVars /\ UNCHANGED decVars
        /\ UNCHANGED profileVars /\ UNCHANGED textVars /\ UNCHANGED sharedVars
        /\ UNCHANGED grammarVars

CallToPromtOptionsOpenAi ==
    /\ projected = None
    /\ vendor' = "OpenAi"
    /\ projected' = Some(ToPromtOptionsOpenAi(source))
    /\ UNCHANGED source
    /\ UNCHANGED codecVars /\ UNCHANGED storeVars
    /\ UNCHANGED parseVars /\ UNCHANGED optVars /\ UNCHANGED decVars
    /\ UNCHANGED profileVars /\ UNCHANGED textVars /\ UNCHANGED sharedVars
    /\ UNCHANGED grammarVars

CallToPromtOptionsOllama ==
    /\ projected = None
    /\ vendor' = "Ollama"
    /\ projected' = Some(ToPromtOptionsOllama(source))
    /\ UNCHANGED source
    /\ UNCHANGED codecVars /\ UNCHANGED storeVars
    /\ UNCHANGED parseVars /\ UNCHANGED optVars /\ UNCHANGED decVars
    /\ UNCHANGED profileVars /\ UNCHANGED textVars /\ UNCHANGED sharedVars
    /\ UNCHANGED grammarVars

CallToPromtOptionsLlamaCpp ==
    /\ projected = None
    /\ vendor' = "LlamaCpp"
    /\ projected' = Some(ToPromtOptionsLlamaCpp(source))
    /\ UNCHANGED source
    /\ UNCHANGED codecVars /\ UNCHANGED storeVars
    /\ UNCHANGED parseVars /\ UNCHANGED optVars /\ UNCHANGED decVars
    /\ UNCHANGED profileVars /\ UNCHANGED textVars /\ UNCHANGED sharedVars
    /\ UNCHANGED grammarVars

NextVendor ==
    \/ SourceSet
    \/ CallToPromtOptionsOpenAi
    \/ CallToPromtOptionsOllama
    \/ CallToPromtOptionsLlamaCpp

SpecVendor == InitVendor /\ [][NextVendor]_vars

(***************************************************************************)
(* A caller of GrammarCheck: it types a grammar text, or starts from a     *)
(* longer one, then calls GrammarCheck on the text and PromtLoad on a      *)
(* document of one block whose grammar section holds the text.             *)
(***************************************************************************)
G_object == <<"{", "\"", "a", "\"", ":", "1", "}">>
G_nested == <<"{", "\"", "b", "\"", ":", " ", "[", "1", ",", " ", "{", "}", "]", ",", "\"", "a", "\"", ":", "n", "u", "l", "l", "}">>
G_twice == <<"{", "\"", "a", "\"", ":", "1", ",", "\"", "a", "\"", ":", "[", "]", "}">>
G_trailingComma == <<"{", "\"", "a", "\"", ":", "1", ",", "}">>
G_bareKey == <<"{", "a", ":", "1", "}">>
G_word == <<"t", "r", "u", "e", " ", "f", "a", "l", "s", "e">>
G_twoLines == <<"[", "1", ",", "\n", "1", "]">>

GrammarSeeds == {<<>>, G_object, G_nested, G_twice, G_trailingComma, G_bareKey,
                 G_word, G_twoLines}
GrammarChars == {"{", "}", "[", "]", "\"", "a", ":", "1", " "}

\* the document: $$begin, $$user, hi, $$grammar, the text, $$end
GrammarDocument(text) ==
    JoinLines(<<L_begin, L_user, L_hi, L_grammar, text, L_end>>)

InitGrammar ==
    /\ ParseIdle /\ use = "core" /\ OptIdle /\ DecIdle /\ ProfileIdle
    /\ SharedIdle /\ TextIdle
    /\ CodecIdle /\ StoreIdle /\ VendorIdle
    /\ grammarText \in GrammarSeeds
    /\ checked = None /\ loaded = None

TypeGrammar ==
    \E c \in GrammarChars :
        /\ checked = None /\ loaded = None
        /\ Len(grammarText) < MaxGrammarLen
        /\ grammarText' = Append(grammarText, c)
        /\ UNCHANGED <<checked, loaded>>
        /\ UNCHANGED codecVars /\ UNCHANGED storeVars /\ UNCHANGED vendorVars
        /\ UNCHANGED parseVars /\ UNCHANGED optVars /\ UNCHANGED decVars
        /\ UNCHANGED profileVars /\ UNCHANGED textVars /\ UNCHANGED sharedVars

CallGrammarCheck ==
    /\ checked = None
    /\ checked' = Some(GrammarCheck(grammarText))
    /\ UNCHANGED <<grammarText, loaded>>
    /\ UNCHANGED codecVars /\ UNCHANGED storeVars /\ UNCHANGED vendorVars
    /\ UNCHANGED parseVars /\ UNCHANGED optVars /\ UNCHANGED decVars
    /\ UNCHANGED profileVars /\ UNCHANGED textVars /\ UNCHANGED sharedVars

CallPromtLoad ==
    /\ loaded = None
    /\ loaded' = Some(PromtLoad(GrammarDocument(grammarText), "core"))
    /\ UNCHANGED <<grammarText, checked>>
    /\ UNCHANGED codecVars /\ UNCHANGED storeVars /\ UNCHANGED vendorVars
    /\ UNCHANGED parseVars /\ UNCHANGED optVars /\ UNCHANGED decVars
    /\ UNCHANGED profileVars /\ UNCHANGED textVars /\ UNCHANGED sharedVars

NextGrammar == TypeGrammar \/ CallGrammarCheck \/ CallPromtLoad

SpecGrammar == InitGrammar /\ [][NextGrammar]_vars

(***************************************************************************)
(* A caller of PromtOptionsParse that keeps the result of a call, pushes   *)
(* texts to the stopSequences array of that result, and calls again with   *)
(* the same arguments.  An array is an object: result[key] = defaultValue  *)
(* and result[key] = inputValue store the array itself, not a copy of it.  *)
(* defaultStops is what the stopSequences arrays of defVal and defValJson  *)
(* hold.                                                                   *)
(***************************************************************************)
SharedRaws ==
    {None,
     Some(Obj(<<>>)),
     Some(Obj(<< <<K_temperature, Num(7, 1)>> >>)),
     Some(Obj(<< <<K_stopSequences, Arr(<<Str(<<"a">>)>>)>> >>)),
     Some(Obj(<< <<K_stopSequences, Arr(<<>>)>> >>)),
     Some(Obj(<< <<K_stopSequences, Int2Num(5)>> >>))}
PushedTexts == {Str(<<"x">>), Str(<<"y">>)}

\* the defaults table of a profile as it is now
DefaultsNow(u, stops) ==
    ObjSet(IF u = "core" THEN defVal ELSE defValJson, K_stopSequences, Arr(stops[u]))

\* PromtOptionsParse reading the defaults table as it is now
PromtOptionsParseNow(u, rawArg, all, stops) ==
    ParseWith(IF u = "core" THEN SPromtOptions ELSE SPromtOptionsJson,
              DefaultsNow(u, stops),
              IF Has(rawArg) /\ Val(rawArg).t = "obj" THEN Val(rawArg).o ELSE <<>>,
              all)

\* the array that result.stopSequences is: the one of raw when raw holds a
\* value that passes the check, else the one of the defaults table when
\* defaults are asked for, else there is none
StopArrayOf(u, rawArg, all) ==
    LET input == IF Has(rawArg) /\ Val(rawArg).t = "obj" THEN Val(rawArg).o ELSE <<>>
        schema == IF u = "core" THEN SPromtOptions ELSE SPromtOptionsJson
        inputValue == Prop(input, K_stopSequences)
    IN IF inputValue # Undefined /\ ValueCheck(ObjGet(schema, K_stopSequences), inputValue)
       THEN "raw"
       ELSE IF all THEN "defaults" ELSE "none"

InitShared ==
    /\ ParseIdle /\ use = "core" /\ OptIdle /\ DecIdle /\ ProfileIdle
    /\ TextIdle
    /\ CodecIdle /\ StoreIdle /\ VendorIdle /\ GrammarIdle
    /\ defaultStops = [u \in Profiles |-> <<>>]
    /\ kept = None /\ again = None

\* const result = PromtOptionsParse(u, rawArg, all)
CallAndKeep ==
    \E u \in Profiles, rawArg \in SharedRaws, all \in BOOLEAN :
        /\ kept = None
        /\ kept' = Some([u |-> u, rawArg |-> rawArg, all |-> all,
                         returned |-> PromtOptionsParseNow(u, rawArg, all, defaultStops),
                         result |-> PromtOptionsParseNow(u, rawArg, all, defaultStops),
                         array |-> StopArrayOf(u, rawArg, all)])
        /\ UNCHANGED <<defaultStops, again>>
        /\ UNCHANGED codecVars /\ UNCHANGED storeVars /\ UNCHANGED vendorVars
        /\ UNCHANGED grammarVars
        /\ UNCHANGED parseVars /\ UNCHANGED optVars /\ UNCHANGED decVars
        /\ UNCHANGED profileVars /\ UNCHANGED textVars

\* result.stopSequences.push(text): the array changes, for every holder of it
PushStop ==
    \E text \in PushedTexts :
        /\ Has(kept) /\ again = None
        /\ Val(kept).array # "none"
        /\ Len(Prop(Val(kept).result, K_stopSequences).a) < MaxPushes
        /\ kept' = Some([Val(kept) EXCEPT !.result =
                            ObjSet(@, K_stopSequences,
                                   Arr(Append(Prop(@, K_stopSequences).a, text)))])
        /\ defaultStops' =
              IF Val(kept).array = "defaults"
              THEN [defaultStops EXCEPT ![Val(kept).u] = Append(@, text)]
              ELSE defaultStops
        /\ UNCHANGED again
        /\ UNCHANGED codecVars /\ UNCHANGED storeVars /\ UNCHANGED vendorVars
        /\ UNCHANGED grammarVars
        /\ UNCHANGED parseVars /\ UNCHANGED optVars /\ UNCHANGED decVars
        /\ UNCHANGED profileVars /\ UNCHANGED textVars

\* a later call with the arguments of the first, written out again
CallAgain ==
    /\ Has(kept) /\ again = None
    /\ again' = Some(PromtOptionsParseNow(Val(kept).u, Val(kept).rawArg, Val(kept).all,
                                          defaultStops))
    /\ UNCHANGED <<defaultStops, kept>>
    /\ UNCHANGED codecVars /\ UNCHANGED storeVars /\ UNCHANGED vendorVars
    /\ UNCHANGED grammarVars
    /\ UNCHANGED parseVars /\ UNCHANGED optVars /\ UNCHANGED decVars
    /\ UNCHANGED profileVars /\ UNCHANGED textVars

NextShared == CallAndKeep \/ PushStop \/ CallAgain

SpecShared == InitShared /\ [][NextShared]_vars

(***************************************************************************)
(* A caller of PromtLoad that writes a text line by line and loads it.     *)
(***************************************************************************)
DocLines == {L_begin, L_end, L_user, L_hi, L_padded}

InitText ==
    /\ ParseIdle /\ use = "core" /\ OptIdle /\ DecIdle /\ ProfileIdle
    /\ CodecIdle /\ StoreIdle /\ VendorIdle /\ GrammarIdle /\ SharedIdle
    /\ document = <<>> /\ output = None

WriteLine ==
    \E line \in DocLines :
        /\ output = None
        /\ Len(document) < MaxDocLines
        /\ document' = Append(document, line)
        /\ UNCHANGED output
        /\ UNCHANGED codecVars /\ UNCHANGED storeVars /\ UNCHANGED vendorVars
        /\ UNCHANGED grammarVars /\ UNCHANGED sharedVars
        /\ UNCHANGED parseVars /\ UNCHANGED optVars /\ UNCHANGED decVars
        /\ UNCHANGED profileVars

CallPromtLoadText ==
    /\ output = None
    /\ output' = Some(PromtLoad(JoinLines(document), "core"))
    /\ UNCHANGED document
    /\ UNCHANGED codecVars /\ UNCHANGED storeVars /\ UNCHANGED vendorVars
    /\ UNCHANGED grammarVars /\ UNCHANGED sharedVars
    /\ UNCHANGED parseVars /\ UNCHANGED optVars /\ UNCHANGED decVars
    /\ UNCHANGED profileVars

NextText == WriteLine \/ CallPromtLoadText

SpecText == InitText /\ [][NextText]_vars

(***************************************************************************)
(* Two runs of parse side by side on the same lines, one under each        *)
(* profile.                                                                *)
(***************************************************************************)
InitProfiles ==
    /\ ParseIdle /\ use = "core" /\ OptIdle /\ DecIdle
    /\ CodecIdle /\ StoreIdle /\ VendorIdle /\ GrammarIdle /\ SharedIdle
    /\ TextIdle
    /\ coreRun = StartState /\ jsonRun = StartState
    /\ linesRead = 0 /\ bothReturned = None

\* the line would be buffered by the run
IsBuffered(st, line) ==
    /\ st.inBlock /\ st.currentSection # "none"
    /\ Trim(line) \notin {M_begin, M_end}
    /\ ~IsSectionMarker(Trim(line))

\* both runs read the same line
ReadBoth ==
    \E line \in Lines :
        /\ bothReturned = None
        /\ linesRead < MaxLines
        /\ IsBuffered(coreRun, line) => Len(coreRun.sectionContent) < MaxContent
        /\ coreRun' = StepLine(coreRun, line, "core")
        /\ jsonRun' = StepLine(jsonRun, line, "json")
        /\ linesRead' = linesRead + 1
        /\ UNCHANGED bothReturned
        /\ UNCHANGED codecVars /\ UNCHANGED storeVars /\ UNCHANGED vendorVars
        /\ UNCHANGED grammarVars /\ UNCHANGED sharedVars /\ UNCHANGED textVars
        /\ UNCHANGED parseVars /\ UNCHANGED optVars /\ UNCHANGED decVars

\* the input ends for both
ReturnBoth ==
    /\ bothReturned = None
    /\ bothReturned' = Some([core |-> AfterLoop(coreRun, "core"),
                             json |-> AfterLoop(jsonRun, "json")])
    /\ UNCHANGED <<coreRun, jsonRun, linesRead>>
    /\ UNCHANGED codecVars /\ UNCHANGED storeVars /\ UNCHANGED vendorVars
    /\ UNCHANGED grammarVars /\ UNCHANGED sharedVars /\ UNCHANGED textVars
    /\ UNCHANGED parseVars /\ UNCHANGED optVars /\ UNCHANGED decVars

NextProfiles == ReadBoth \/ ReturnBoth

SpecProfiles == InitProfiles /\ [][NextProfiles]_vars

(***************************************************************************)
(* Properties of the parser, over every state a run of parse reaches.      *)
(* Output is PromtLoad of the lines read so far: the state after the loop  *)
(* when the input ends here, or the value already returned.                *)
(***************************************************************************)
Output == IF returned THEN promts ELSE AfterLoop(State, use)

OrEmpty(o) == IF Has(o) THEN Val(o) ELSE <<>>

\* the user text the open block holds once its open section is flushed
OpenUserText ==
    IF currentSection = "user" /\ sectionContent # <<>>
    THEN Trim(JoinLines(sectionContent))
    ELSE IF Has(currentPromt) THEN OrEmpty(Val(currentPromt).user)
    ELSE <<>>

\* the key a line of an options section writes: the text before its first "="
KeyOfLine(line) ==
    LET trimmed == Trim(line)
    IN IF IndexOf(trimmed, "=") > 0
       THEN Some(Trim(SubSeq(trimmed, 1, IndexOf(trimmed, "="))))
       ELSE None
KeysOfLines(ls) == {Val(KeyOfLine(l)) : l \in {x \in ls : Has(KeyOfLine(x))}}
Range(seq) == {seq[n] : n \in 1..Len(seq)}

\* the recognized option keys, and the check of one option entry against the
\* declared type and bounds of its key
RecognizedKeys == {PromtValue[n][1] : n \in 1..Len(PromtValue)}
BoundsOf(key) == ObjGet(PromtValue, key)
InBounds(key, v) ==
    CASE TypeOf(key) = "boolean" -> v.t = "bool"
      [] TypeOf(key) = "array" -> v.t = "arr" /\ \A n \in 1..Len(v.a) : v.a[n].t = "str"
      [] OTHER ->
            /\ v.t = "num"
            /\ TypeOf(key) = "integer" => v.e = 0
            /\ Has(BoundsOf(key).minimum) => v.m >= Val(BoundsOf(key).minimum) * Pow10(v.e)
            /\ Has(BoundsOf(key).maximum) => v.m <= Val(BoundsOf(key).maximum) * Pow10(v.e)

\* two records with the same content, an absent text counting as an empty one
\* and absent options or segments as an empty mapping
SameRecord(a, b) ==
    /\ OrEmpty(a.system) = OrEmpty(b.system)
    /\ OrEmpty(a.user) = OrEmpty(b.user)
    /\ OrEmpty(a.grammar) = OrEmpty(b.grammar)
    /\ ObjEq(OrEmpty(a.options), OrEmpty(b.options))
    /\ ObjEq(OrEmpty(a.segment), OrEmpty(b.segment))
SameRecords(as, bs) ==
    /\ Len(as) = Len(bs)
    /\ \A n \in 1..Len(as) : SameRecord(as[n], bs[n])

\* C1: storing what PromtLoad returned and loading the stored text gives the
\* same records again, record by record and field by field (here even with an
\* absent field counted as equal to an empty one).
C1_LoadStoreLoad == SameRecords(PromtLoad(PromtStore(Output), use), Output)

\* C2: every record of the output has a non-empty user text (set, not empty,
\* not white space only), and a block counts in the output exactly when the
\* user text it holds is not empty: a block with no user section, or with a
\* user section of white space only, contributes no record whatever else it
\* has.
C2_UserNonEmpty ==
    /\ \A n \in 1..Len(Output) :
          /\ Has(Output[n].user)
          /\ Trim(Val(Output[n].user)) # <<>>
    /\ (~returned /\ inBlock) =>
          /\ OpenUserText # <<>> => Len(Output) = Len(promts) + 1
          /\ OpenUserText = <<>> => Output = promts
    /\ (~returned /\ ~inBlock) => Output = promts

\* a block that has a system text and a user section of one blank line
C2_Witness ==
    /\ ~returned /\ inBlock
    /\ Truthy(Val(currentPromt).system)
    /\ currentSection = "user" /\ sectionContent = <<L_blank>>
    /\ Output = promts

\* C6: the options of a record of the output are absent or hold only
\* recognized keys, each with a value of the declared type inside the declared
\* bounds.
C6_OptionsValid ==
    \A n \in 1..Len(Output) :
        \A e \in Range(OrEmpty(Output[n].options)) :
            e[1] \in RecognizedKeys /\ InBounds(e[1], e[2])

\* an options section wrote a valid value, and the record is in the output
C6_Witness ==
    /\ ~returned /\ inBlock
    /\ currentSection = "options" /\ sectionContent = <<L_temperature>>
    /\ Len(Output) = Len(promts) + 1
    /\ OrEmpty(Output[Len(Output)].options) = <<<<K_temperature, Num(7, 1)>>>>

\* an options section wrote an unknown key, then one a value out of bounds
C6_WitnessDropped ==
    /\ ~returned /\ inBlock
    /\ currentSection = "options" /\ sectionContent \in {<<L_unknown>>, <<L_topPHigh>>}
    /\ Len(Output) = Len(promts) + 1
    /\ Output[Len(Output)].options = Some(<<>>)

\* C7: the options PromtLoad stores come from PromtOptionsParse without
\* defaults: the options an options section gives hold only keys that a line
\* of that section writes, and no record of the output, nor the open block,
\* holds a key that no line the parser reads writes.
C7_NoDefaults ==
    /\ (inBlock /\ currentSection = "options" /\ sectionContent # <<>>) =>
          \A e \in Range(OrEmpty(Flush(State, use).options)) :
              e[1] \in KeysOfLines(Range(sectionContent))
    /\ \A n \in 1..Len(Output) :
          \A e \in Range(OrEmpty(Output[n].options)) : e[1] \in KeysOfLines(Lines)
    /\ Has(currentPromt) =>
          \A e \in Range(OrEmpty(Val(currentPromt).options)) : e[1] \in KeysOfLines(Lines)

\* an options section of one valid line gave options of that one key
C7_Witness ==
    /\ ~returned /\ inBlock
    /\ currentSection = "options" /\ sectionContent = <<L_stop>>
    /\ ObjKeys(OrEmpty(Flush(State, use).options)) = <<K_stopSequences>>
    /\ Len(Output) = Len(promts) + 1

\* the numeric and integer fields, and numbers to write
NumericKeys == {k \in RecognizedKeys : TypeOf(k) \in {"number", "integer"}}
WrittenNumbers == {Num(7, 1), Int2Num(0), Int2Num(1), Int2Num(5)}
NumberLine(key, v) == key \o <<"=">> \o NumberToString(v)

\* C8: for a numeric or integer field f and a value v inside f's bounds, a
\* block with a non-empty user text and an options section of the one line
\* f=<decimal text of v> gives a record whose options hold f with value v.
C8_NumberLineParses ==
    \A f \in NumericKeys, v \in WrittenNumbers :
        ( /\ InBounds(f, v)
          /\ ~returned /\ inBlock
          /\ OpenUserText # <<>>
          /\ currentSection = "options"
          /\ sectionContent = <<NumberLine(f, v)>> )
        => /\ Len(Output) = Len(promts) + 1
           /\ ObjHas(OrEmpty(Output[Len(Output)].options), f)
           /\ ObjGet(OrEmpty(Output[Len(Output)].options), f) = v

\* C9: a text whose last block is not closed gives the same records as the
\* text with one more line, the end marker.
C9_ImplicitEnd ==
    (~returned /\ inBlock) =>
        AfterLoop(State, use) = AfterLoop(StepLine(State, L_end, use), use)

\* an open block with a user section holding text: the input ends here and the
\* block is in the output
C9_Witness ==
    /\ ~returned /\ inBlock
    /\ currentSection = "user" /\ sectionContent = <<L_hi>>
    /\ Len(AfterLoop(State, use)) = Len(promts) + 1
    /\ Val(AfterLoop(State, use)[Len(promts) + 1].user) = L_hi

(***************************************************************************)
(* Properties of PromtOptionsParse, over every call of it.                 *)
(***************************************************************************)
\* the mapping the call reads: raw when it is an object, else the empty one
OptInput == IF Has(raw) /\ Val(raw).t = "obj" THEN Val(raw).o ELSE <<>>
\* the declared defaults of the profile of the call
OptDefaults == IF optUse = "json" THEN defValJson ELSE defVal
\* the non-seed fields
FieldKeys == RecognizedKeys \ {K_seed}
\* raw supplies key with a value that passes the key's type and bounds check
Passes(key) ==
    /\ ObjHas(OptInput, key)
    /\ ObjGet(OptInput, key) # Undefined
    /\ InBounds(key, ObjGet(OptInput, key))

C4_Seed ==
    Has(optResult) =>
        IF /\ ObjHas(OptInput, K_seed)
           /\ ObjGet(OptInput, K_seed).t = "num"
           /\ ObjGet(OptInput, K_seed).e = 0
           /\ ObjGet(OptInput, K_seed).m >= 0
        THEN ObjHas(Val(optResult), K_seed)
             /\ ObjGet(Val(optResult), K_seed) = ObjGet(OptInput, K_seed)
        ELSE ~ObjHas(Val(optResult), K_seed)

\* defaults asked for and a seed of -1 supplied: every other field is in the
\* result, the seed is not
C4_Witness ==
    /\ Has(optResult) /\ useAllOptions
    /\ ObjHas(OptInput, K_seed) /\ ObjGet(OptInput, K_seed) = Int2Num(-1)
    /\ Len(Val(optResult)) = Cardinality(FieldKeys)
    /\ ~ObjHas(Val(optResult), K_seed)

\* C5: a call with an empty raw and includeDefaults set gives, for each of the
\* 15 non-seed fields, the default the profile declares for it, and that
\* default is of the field's declared type and inside its declared bounds.
C5_Defaults ==
    /\ Cardinality(FieldKeys) = 15
    /\ (Has(optResult) /\ OptInput = <<>> /\ useAllOptions) =>
          /\ Len(Val(optResult)) = 15
          /\ \A f \in FieldKeys :
                /\ ObjHas(Val(optResult), f)
                /\ ObjGet(Val(optResult), f) = ObjGet(OptDefaults, f)
                /\ InBounds(f, ObjGet(Val(optResult), f))

\* the json profile called with no raw at all and defaults asked for
C5_Witness ==
    /\ Has(optResult) /\ raw = None /\ useAllOptions /\ optUse = "json"
    /\ ObjGet(Val(optResult), K_temperature) = Int2Num(0)
    /\ ObjGet(Val(optResult), K_maxTokens) = Int2Num(4096)

\* the declared field order of the profile of the call, seed last
DeclaredOrder == ObjKeys(OptDefaults) \o <<K_seed>>
InResult(key) == ObjHas(Val(optResult), key)
Reverse(seq) == [n \in 1..Len(seq) |-> seq[Len(seq) + 1 - n]]

\* C12: the keys of a PromtOptionsParse result come in the declared field
\* order of the profile, seed last, whatever the order of the keys of raw: the
\* raw mapping with its entries in the opposite order gives the same result,
\* keys in the same order.
C12_KeyOrder ==
    Has(optResult) =>
        /\ ObjKeys(Val(optResult)) = SelectSeq(DeclaredOrder, InResult)
        /\ PromtOptionsParse(optUse, Some(Obj(Reverse(OptInput))), useAllOptions)
               = Val(optResult)

\* raw holds topK before temperature; the result holds temperature before topK
C12_Witness ==
    /\ Has(optResult) /\ ~useAllOptions
    /\ ObjKeys(OptInput) = <<K_topK, K_temperature>>
    /\ ObjKeys(Val(optResult)) = <<K_temperature, K_topK>>

\* raw holds seed before temperature; the result holds seed last
C12_WitnessSeed ==
    /\ Has(optResult) /\ ~useAllOptions
    /\ ObjKeys(OptInput) = <<K_seed, K_temperature>>
    /\ ObjKeys(Val(optResult)) = <<K_temperature, K_seed>>

(***************************************************************************)
(* Properties of parseOptionValue, over every call of it.                  *)
(***************************************************************************)
\* the text without one pair of the same quote character around it
Unquoted(v) ==
    IF Len(v) >= 2 /\ v[1] = v[Len(v)] /\ v[1] \in {"\"", "'"}
    THEN SubSeq(v, 2, Len(v) - 1)
    ELSE v

\* A decimal number as a text: an optional sign, digits with at most one point
\* among them, and an optional exponent of an optional sign and digits.
Unsigned(t) == IF t # <<>> /\ t[1] \in {"+", "-"} THEN Tail(t) ELSE t
ExpAt(b) ==
    IF \E n \in 1..Len(b) : b[n] \in {"e", "E"}
    THEN CHOOSE n \in 1..Len(b) : b[n] \in {"e", "E"} /\ \A k \in 1..(n - 1) : b[k] \notin {"e", "E"}
    ELSE Len(b) + 1
MantissaOf(b) == SubSeq(b, 1, ExpAt(b) - 1)
ExponentOf(b) == SubSeq(b, ExpAt(b) + 1, Len(b))
IsDigit(c) == c \in Digits
IsMantissa(m) ==
    /\ \A n \in 1..Len(m) : m[n] \in Digits \cup {"."}
    /\ Cardinality({n \in 1..Len(m) : m[n] = "."}) <= 1
    /\ \E n \in 1..Len(m) : m[n] \in Digits
IsExponent(x) == Unsigned(x) # <<>> /\ \A n \in 1..Len(Unsigned(x)) : Unsigned(x)[n] \in Digits
IsDecimalText(t) ==
    /\ IsMantissa(MantissaOf(Unsigned(t)))
    /\ ExpAt(Unsigned(t)) <= Len(Unsigned(t)) => IsExponent(ExponentOf(Unsigned(t)))
IsInfinityText(t) == Unsigned(t) = T_Infinity

\* the number a decimal text writes
FractionDigits(m) ==
    IF \E n \in 1..Len(m) : m[n] = "." THEN Len(m) - (CHOOSE n \in 1..Len(m) : m[n] = ".") ELSE 0
ExponentValue(x) ==
    IF x = <<>> THEN 0
    ELSE IF x[1] = "-" THEN 0 - DigitsVal(Unsigned(x))
    ELSE DigitsVal(Unsigned(x))
DecimalValue(t) ==
    LET m == MantissaOf(Unsigned(t))
        mant == DigitsVal(SelectSeq(m, IsDigit))
    IN Num(IF t[1] = "-" THEN 0 - mant ELSE mant,
           FractionDigits(m) - ExponentValue(ExponentOf(Unsigned(t))))

\* the whole text read as a decimal number
ReadWholeNumber(t) == IF IsDecimalText(t) THEN Some(DecimalValue(t)) ELSE None

\* the longest leading part of the text that is a decimal number or Infinity
NumberPrefixes(t) ==
    {n \in 1..Len(t) : IsDecimalText(SubSeq(t, 1, n)) \/ IsInfinityText(SubSeq(t, 1, n))}
Longest(ns) == CHOOSE n \in ns : \A k \in ns : k <= n
ReadPrefix(p) ==
    IF IsInfinityText(p) THEN Some(Infinity(p[1] = "-")) ELSE Some(DecimalValue(p))
ReadLeadingNumber(t) ==
    IF NumberPrefixes(t) = {} THEN None
    ELSE ReadPrefix(SubSeq(t, 1, Longest(NumberPrefixes(t))))

\* the decoding order, with the way a number is read left open
DecodeBy(v, ReadNumber(_)) ==
    IF v = <<>> THEN None
    ELSE IF v[1] = "[" /\ Has(JsonParse(v)) /\ Val(JsonParse(v)).t = "arr" THEN JsonParse(v)
    ELSE IF ToLowerCase(Unquoted(v)) \in {T_true, <<"1">>, <<"y">>} THEN Some(Bool(TRUE))
    ELSE IF ToLowerCase(Unquoted(v)) \in {T_false, <<"0">>, <<"n">>} THEN Some(Bool(FALSE))
    ELSE ReadNumber(TrimStart(ReplaceFirstComma(Unquoted(v))))

\* the values of the lines stop=["a","b"], flag=Y, ratio=1,5 and bad=
DecodeExamples ==
    /\ valueStr = V_stopArray => Val(decoded) = Some(Arr(<<Str(<<"a">>), Str(<<"b">>)>>))
    /\ valueStr = V_Y => Val(decoded) = Some(Bool(TRUE))
    /\ valueStr = V_ratio => Val(decoded) = Some(Num(15, 1))
    /\ valueStr = <<>> => SetOption(<<>>, V_bad, Val(decoded)) = <<>>

\* C10: parseOptionValue gives the first match of: the empty text, no value; a
\* text starting with "[" that parses as a JSON array, that array; a text that
\* without one pair of quotes around it is true, 1 or y in any case, boolean
\* true, and false, 0 or n, boolean false; else the number written by the
\* longest leading part of the unquoted text, its first "," taken as the
\* point, that is a decimal number (or Infinity), whatever follows that part;
\* else no value.
C10_Decoder ==
    Has(decoded) =>
        /\ Val(decoded) = DecodeBy(valueStr, ReadLeadingNumber)
        /\ DecodeExamples

\* the text 1,5x: the number 1.5 is read and the x after it is dropped
C10_Witness ==
    /\ Has(decoded)
    /\ valueStr = V_ratio \o <<"x">>
    /\ Val(decoded) = Some(Num(15, 1))

\* C10 as stated: the last step gives a number only when the text as a whole
\* reads as a decimal number, and no value otherwise.
C10_WholeText ==
    Has(decoded) =>
        /\ Val(decoded) = DecodeBy(valueStr, ReadWholeNumber)
        /\ DecodeExamples

(***************************************************************************)
(* Properties of parseOptionsToObject, over every call of it.              *)
(***************************************************************************)
\* the value a line writes: the decoding of the trimmed text after its first "="
ValueOfLine(line) ==
    parseOptionValue(Trim(SubstringFrom(Trim(line), IndexOf(Trim(line), "=") + 1)))
\* the lines that write key with a value
SettersOf(key) ==
    {n \in 1..Len(optionLines) :
        KeyOfLine(optionLines[n]) = Some(key) /\ Has(ValueOfLine(optionLines[n]))}

RECURSIVE BlocksOf(_, _)
BlocksOf(lines, blocks) ==
    IF lines = <<>> THEN blocks
    ELSE IF lines[1] = M_begin THEN BlocksOf(Tail(lines), Append(blocks, <<lines[1]>>))
    ELSE IF blocks = <<>> THEN BlocksOf(Tail(lines), <<<<lines[1]>>>>)
    ELSE BlocksOf(Tail(lines), [blocks EXCEPT ![Len(blocks)] = Append(@, lines[1])])
StoredBlocks == IF Val(stored) = <<>> THEN <<>> ELSE BlocksOf(SplitLines(Val(stored)), <<>>)

\* the lines of one section, written when the field holds a text that is not empty
SectionLines(marker, field) == IF Truthy(field) THEN <<marker, Val(field)>> ELSE <<>>
\* the options marker and one line per option entry, in the order of the entries
OptionLinesOf(promt) ==
    IF Has(promt.options)
    THEN [n \in 1..(Len(Val(promt.options)) + 1) |->
             IF n = 1 THEN M_options
             ELSE serializeOptionValue(Val(promt.options)[n - 1][1],
                                       Val(promt.options)[n - 1][2])]
    ELSE <<>>
\* a marker line and a text line per segment entry, in the order of the entries
SegmentLinesOf(promt) ==
    [n \in 1..(2 * Len(OrEmpty(promt.segment))) |->
        IF n % 2 = 1
        THEN M_segment \o OrEmpty(promt.segment)[(n + 1) \div 2][1]
        ELSE OrEmpty(promt.segment)[n \div 2][2]]

\* C13: PromtStore writes one block per record, in the order of the records,
\* and in each block, in this order: $$begin; the $$options marker and one
\* key=value line per option entry in the order of the entries; the $$system
\* section; the $$user marker and the user text, always, also for an empty
\* user; the $$grammar section; one $$segment=<name> section per segment entry
\* in the order of the entries; $$end.
C13_StoreOrder ==
    Has(stored) =>
        /\ Len(StoredBlocks) = Len(records)
        /\ \A n \in 1..Len(records) :
              StoredBlocks[n] =
                  <<M_begin>>
                  \o OptionLinesOf(records[n])
                  \o SectionLines(M_system, records[n].system)
                  \o <<M_user, OrEmpty(records[n].user)>>
                  \o SectionLines(M_grammar, records[n].grammar)
                  \o SegmentLinesOf(records[n])
                  \o <<M_end>>

\* the full record, then the least record with an empty user
C13_Witness ==
    /\ Has(stored)
    /\ records = <<FullRecord, [LeastRecord EXCEPT !.user = Some(<<>>)]>>
    /\ Len(StoredBlocks) = 2
    /\ StoredBlocks[2] = <<M_begin, M_user, <<>>, M_end>>

\* the block of record n holds the marker followed by the text of the field
MarkerThenText(n, marker, field) ==
    \E k \in 1..(Len(StoredBlocks[n]) - 1) :
        StoredBlocks[n][k] = marker /\ StoredBlocks[n][k + 1] = Val(field)
HoldsMarker(n, marker) == \E k \in 1..Len(StoredBlocks[n]) : StoredBlocks[n][k] = marker

\* C14: PromtStore writes the $$system marker followed by the text for every
\* record whose system field holds a text that is not empty, and the $$grammar
\* marker followed by the text for every record whose grammar field holds a
\* text that is not empty; it writes neither marker for a record in which the
\* field is absent or holds the empty text.
C14_SectionsWritten ==
    (Has(stored) /\ Len(StoredBlocks) = Len(records)) =>
        \A n \in 1..Len(records) :
            /\ IF Truthy(records[n].system)
               THEN MarkerThenText(n, M_system, records[n].system)
               ELSE ~HoldsMarker(n, M_system)
            /\ IF Truthy(records[n].grammar)
               THEN MarkerThenText(n, M_grammar, records[n].grammar)
               ELSE ~HoldsMarker(n, M_grammar)

\* a record whose system is the empty text: no $$system line is written
C14_Witness ==
    /\ Has(stored)
    /\ records = <<[LeastRecord EXCEPT !.system = Some(<<>>)]>>
    /\ Len(StoredBlocks) = 1
    /\ ~HoldsMarker(1, M_system)

\* C14 as stated: the markers are written for every record in which the field
\* is present, whatever its text, the empty text included.
C14_PresentWritten ==
    (Has(stored) /\ Len(StoredBlocks) = Len(records)) =>
        \A n \in 1..Len(records) :
            /\ IF Has(records[n].system)
               THEN MarkerThenText(n, M_system, records[n].system)
               ELSE ~HoldsMarker(n, M_system)
            /\ IF Has(records[n].grammar)
               THEN MarkerThenText(n, M_grammar, records[n].grammar)
               ELSE ~HoldsMarker(n, M_grammar)

(***************************************************************************)
(* Properties of the vendor adapters, over every state a caller reaches.   *)
(***************************************************************************)
\* the table of the documentation: universal field, vendor key
TableOpenAi ==
    {
     <<K_temperature, <<"t", "e", "m", "p", "e", "r", "a", "t", "u", "r", "e">>>>,
     <<K_topP, <<"t", "o", "p", "_", "p">>>>,
     <<K_maxTokens, <<"m", "a", "x", "_", "t", "o", "k", "e", "n", "s">>>>,
     <<K_frequencyPenalty, <<"f", "r", "e", "q", "u", "e", "n", "c", "y", "_", "p", "e", "n", "a", "l", "t", "y">>>>,
     <<K_presencePenalty, <<"p", "r", "e", "s", "e", "n", "c", "e", "_", "p", "e", "n", "a", "l", "t", "y">>>>,
     <<K_seed, <<"s", "e", "e", "d">>>>,
     <<K_stopSequences, <<"s", "t", "o", "p">>>>,
     <<K_tokenBias, <<"l", "o", "g", "i", "t", "_", "b", "i", "a", "s">>>>
    }

TableOllama ==
    {
     <<K_temperature, <<"t", "e", "m", "p", "e", "r", "a", "t", "u", "r", "e">>>>,
     <<K_topP, <<"t", "o", "p", "_", "p">>>>,
     <<K_topK, <<"t", "o", "p", "_", "k">>>>,
     <<K_minP, <<"m", "i", "n", "_", "p">>>>,
     <<K_maxTokens, <<"n", "u", "m", "_", "p", "r", "e", "d", "i", "c", "t">>>>,
     <<K_repeatPenalty, <<"r", "e", "p", "e", "a", "t", "_", "p", "e", "n", "a", "l", "t", "y">>>>,
     <<K_repeatPenaltyNum, <<"r", "e", "p", "e", "a", "t", "_", "l", "a", "s", "t", "_", "n">>>>,
     <<K_mirostat, <<"m", "i", "r", "o", "s", "t", "a", "t">>>>,
     <<K_mirostatTau, <<"m", "i", "r", "o", "s", "t", "a", "t", "_", "t", "a", "u">>>>,
     <<K_mirostatEta, <<"m", "i", "r", "o", "s", "t", "a", "t", "_", "e", "t", "a">>>>,
     <<K_seed, <<"s", "e", "e", "d">>>>,
     <<K_stopSequences, <<"s", "t", "o", "p">>>>,
     <<K_penalizeNewline, <<"p", "e", "n", "a", "l", "i", "z", "e", "_", "n", "e", "w", "l", "i", "n", "e">>>>
    }

\* the values an object holds under a key, one for each entry with that key
ValuesAt(object, key) == {object[n][2] : n \in {m \in 1..Len(object) : object[m][1] = key}}

\* the field is set in the object to a value other than undefined
IsPresent(object, key) == \E v \in ValuesAt(object, key) : v # Undefined

\* a list or a map that is set and holds nothing
IsEmptyCollection(object, key) ==
    \E v \in ValuesAt(object, key) :
        \/ v.t = "arr" /\ v.a = <<>>
        \/ v.t = "obj" /\ v.o = <<>>

\* the field counts for a projection
Counts(object, key) == IsPresent(object, key) /\ ~IsEmptyCollection(object, key)

NoKeyTwice(object) ==
    \A m, n \in 1..Len(object) : object[m][1] = object[n][1] => m = n

ExactProjection(table, from, to) ==
    /\ NoKeyTwice(to)
    /\ \A row \in table :
            IF Counts(from, row[1])
            THEN ValuesAt(to, row[2]) = ValuesAt(from, row[1])
            ELSE ValuesAt(to, row[2]) = {}
    /\ \A n \in 1..Len(to) : \E row \in table : to[n][1] = row[2]

\* C15: the result of ToPromtOptionsOpenAi and of ToPromtOptionsOllama has a
\* vendor key exactly when the source has the universal field of the same row
\* of the table (a stopSequences or tokenBias that is set and not empty), the
\* value under it is the source's value, and the result has no other key.
C15_ExactProjection ==
    /\ Has(projected) /\ vendor = "OpenAi"
            => ExactProjection(TableOpenAi, source, Val(projected))
    /\ Has(projected) /\ vendor = "Ollama"
            => ExactProjection(TableOllama, source, Val(projected))

\* an OpenAI projection of a source with maxTokens and an empty stopSequences
C15_Witness ==
    /\ Has(projected) /\ vendor = "OpenAi"
    /\ Counts(source, K_maxTokens)
    /\ IsEmptyCollection(source, K_stopSequences)
    /\ ValuesAt(Val(projected), <<"m", "a", "x", "_", "t", "o", "k", "e", "n", "s">>) # {}

\* an Ollama projection of a source with every field
C15_WitnessOllama ==
    /\ Has(projected) /\ vendor = "Ollama"
    /\ source = FullSource
    /\ Len(Val(projected)) = 13

\* the five penalty fields: universal field, sub-field of the nested object
TablePenalty ==
    {
     <<K_repeatPenalty, <<"p", "e", "n", "a", "l", "t", "y">>>>,
     <<K_repeatPenaltyNum, <<"l", "a", "s", "t", "T", "o", "k", "e", "n", "s">>>>,
     <<K_frequencyPenalty, <<"f", "r", "e", "q", "u", "e", "n", "c", "y", "P", "e", "n", "a", "l", "t", "y">>>>,
     <<K_presencePenalty, <<"p", "r", "e", "s", "e", "n", "c", "e", "P", "e", "n", "a", "l", "t", "y">>>>,
     <<K_penalizeNewline, <<"p", "e", "n", "a", "l", "i", "z", "e", "N", "e", "w", "L", "i", "n", "e">>>>
    }

\* the nested objects a result holds under repeatPenalty
NestedPenalty(result) == ValuesAt(result, <<"r", "e", "p", "e", "a", "t", "P", "e", "n", "a", "l", "t", "y">>)

\* no penalty field, and no sub-field, is a key of the result itself, but for
\* repeatPenalty holding an object
NoTopLevelPenalty(result) ==
    \A n \in 1..Len(result) :
        \A row \in TablePenalty :
            /\ result[n][1] = row[1] => row[1] = K_repeatPenalty /\ result[n][2].t = "obj"
            /\ result[n][1] = row[2] => row[2] \in {r[1] : r \in TablePenalty}

\* C16: the result of ToPromtOptionsLlamaCpp holds a nested repeatPenalty
\* object exactly when one of repeatPenalty, repeatPenaltyNum,
\* frequencyPenalty, presencePenalty, penalizeNewline is present in the source;
\* the object holds the sub-fields penalty, lastTokens, frequencyPenalty,
\* presencePenalty, penalizeNewLine of the fields present, with the source's
\* values, and nothing else; none of the five is a top-level scalar.
C16_NestedPenalty ==
    Has(projected) /\ vendor = "LlamaCpp" =>
        /\ NoKeyTwice(Val(projected))
        /\ NoTopLevelPenalty(Val(projected))
        /\ IF \E row \in TablePenalty : IsPresent(source, row[1])
           THEN \E nested \in NestedPenalty(Val(projected)) :
                    /\ NestedPenalty(Val(projected)) = {nested}
                    /\ nested.t = "obj"
                    /\ ExactProjection(TablePenalty, source, nested.o)
           ELSE NestedPenalty(Val(projected)) = {}

\* a projection of a source with repeatPenaltyNum and frequencyPenalty and
\* without repeatPenalty: the nested object holds two sub-fields
C16_Witness ==
    /\ Has(projected) /\ vendor = "LlamaCpp"
    /\ ~IsPresent(source, K_repeatPenalty)
    /\ IsPresent(source, K_repeatPenaltyNum)
    /\ IsPresent(source, K_frequencyPenalty)
    /\ \E nested \in NestedPenalty(Val(projected)) : Len(nested.o) = 2

\* a projection of a source without any of the five: no nested object
C16_WitnessNone ==
    /\ Has(projected) /\ vendor = "LlamaCpp"
    /\ IsPresent(source, K_topK)
    /\ ValuesAt(source, K_repeatPenalty) = {Undefined}
    /\ NestedPenalty(Val(projected)) = {}

(***************************************************************************)
(* Properties of GrammarCheck and of the grammar field, over every state   *)
(* its caller reaches.                                                     *)
(***************************************************************************)
Count(text, chars) == Cardinality({n \in 1..Len(text) : text[n] \in chars})

\* only white space
IsBlank(text) == \A n \in 1..Len(text) : text[n] \in {" ", "\n", "\t", "\r"}

FirstInk(text) ==
    text[CHOOSE n \in 1..Len(text) :
            /\ text[n] \notin {" ", "\n"}
            /\ \A m \in 1..(n - 1) : text[m] \in {" ", "\n"}]

\* texts that no reading as a structured-data document accepts: a string
\* left open, brackets that do not pair up outside any string, or a first
\* character no value starts with
IsUnparseable(text) ==
    /\ ~IsBlank(text)
    /\ \/ Count(text, {"\""}) % 2 = 1
       \/ /\ Count(text, {"\""}) = 0
          /\ \/ Count(text, {"{"}) # Count(text, {"}"})
             \/ Count(text, {"["}) # Count(text, {"]"})
       \/ FirstInk(text) \in {"a", ":", ",", "}", "]"}

\* the grammar fields of the records loaded
LoadedGrammars == {Val(loaded)[n].grammar : n \in 1..Len(Val(loaded))}

\* C17: every record PromtLoad returns has no grammar or a grammar that
\* GrammarCheck maps to itself; a grammar section whose content is blank or
\* does not parse leaves the field unset; GrammarCheck returns the empty text
\* for a blank and for an unparseable text.
C17_GrammarCanonical ==
    /\ Has(loaded) =>
            /\ \A g \in LoadedGrammars :
                    Has(g) => Val(g) # <<>> /\ GrammarCheck(Val(g)) = Val(g)
            /\ IsBlank(grammarText) \/ IsUnparseable(grammarText)
                    => LoadedGrammars = {None}
            /\ Has(checked) /\ Val(checked) = <<>> => LoadedGrammars = {None}
    /\ Has(checked) /\ (IsBlank(grammarText) \/ IsUnparseable(grammarText))
            => Val(checked) = <<>>

\* a document whose grammar section holds a one-line object: the record holds
\* its pretty-printed form, of three lines
C17_Witness ==
    /\ Has(loaded) /\ Has(checked)
    /\ grammarText = G_object
    /\ LoadedGrammars = {checked}
    /\ Count(Val(checked), {"\n"}) = 2

\* a document whose grammar section does not parse: no grammar in the record
C17_WitnessUnparseable ==
    /\ Has(loaded) /\ Has(checked)
    /\ grammarText = G_trailingComma
    /\ LoadedGrammars = {None}
    /\ Val(checked) = <<>>

(***************************************************************************)
(* Properties of the block markers and of the lines parse ignores, over    *)
(* every state a run of parse reaches.                                     *)
(***************************************************************************)
\* the record of the open block once its buffered section is stored
ClosedRecord ==
    IF currentSection # "none" /\ sectionContent # <<>>
    THEN finishSection(Val(currentPromt), currentSection, sectionContent, use,
                       currentSegmentName)
    ELSE Val(currentPromt)

\* the locals after the open block is closed and a new one is opened
Reopened(closed) ==
    [promts |-> IF OrEmpty(closed.user) # <<>> THEN promts \o <<closed>> ELSE promts,
     inBlock |-> TRUE,
     currentPromt |-> Some(EmptyPromt),
     currentSection |-> "none",
     currentSegmentName |-> None,
     sectionContent |-> <<>>]

\* C18: a $$begin line read while a block is open leaves the locals of parse
\* as a $$end line followed by a $$begin line does, so that the lines after it
\* give the same output: the buffered section is stored, the record is
\* appended when its user text is not empty and dropped otherwise, and the new
\* block starts with an empty record, no section and an empty buffer.
C18_BeginClosesBlock ==
    inBlock /\ ~returned =>
        /\ StepLine(State, L_begin, use)
                = StepLine(StepLine(State, L_end, use), L_begin, use)
        /\ StepLine(State, L_begin, use) = Reopened(ClosedRecord)

\* an open block with a buffered user section: a $$begin line emits its record
C18_Witness ==
    /\ inBlock /\ ~returned
    /\ currentSection = "user" /\ sectionContent # <<>>
    /\ Len(StepLine(State, L_begin, use).promts) = Len(promts) + 1

\* a second block opened by a $$begin line without the first being emitted:
\* its user text was empty
C18_WitnessDropped ==
    /\ inBlock /\ ~returned
    /\ currentSection = "system" /\ sectionContent # <<>>
    /\ ~Has(Val(currentPromt).user)
    /\ StepLine(State, L_begin, use).promts = promts

\* what may follow a line in the input
Continuations ==
    {<<>>, <<L_hi>>, <<L_user, L_hi>>, <<L_system, L_hi, L_user, L_hi, L_end>>,
     <<L_begin, L_user, L_hi>>}

\* deleting the line, read from the present locals, changes the output for
\* none of the continuations
Deletable(line) ==
    \A rest \in Continuations :
        ParseLoop(StepLine(State, line, use), rest, use) = ParseLoop(State, rest, use)

\* the line leaves every local of parse as it is, so that the output is the
\* same without it whatever follows
NoEffect(line) == StepLine(State, line, use) = State

\* C19: a line outside any block, section markers and a stray $$end
\* included, and a line inside a block before its first section marker, have
\* no effect, $$begin and, inside a block, $$end excepted: without the line
\* PromtLoad returns the same output.
C19_IgnoredLines ==
    ~returned =>
        \A line \in Lines :
            /\ ~inBlock /\ Trim(line) # M_begin => NoEffect(line)
            /\ inBlock /\ currentSection = "none" /\ ~IsSectionMarker(Trim(line))
                    /\ Trim(line) \notin {M_begin, M_end}
                    => NoEffect(line)

\* the statement with $$begin as the only exception
C19_OnlyBeginExcepted ==
    ~returned =>
        \A line \in Lines :
            /\ ~inBlock /\ Trim(line) # M_begin => Deletable(line)
            /\ inBlock /\ currentSection = "none" /\ ~IsSectionMarker(Trim(line))
                    /\ Trim(line) # M_begin
                    => Deletable(line)

\* lines were read inside a block with no section selected, one was read
\* outside a block after a block was emitted
C19_Witness ==
    /\ ~returned /\ inBlock /\ currentSection = "none"
    /\ Len(promts) = 1 /\ i = MaxLines

C19_WitnessOutside ==
    /\ ~returned /\ ~inBlock
    /\ Len(promts) = 1 /\ i = MaxLines

\* the record of the open block after a section marker ends its section
AfterMarker == Val(StepLine(State, L_grammar, use).currentPromt)

\* the trimmed text of the open section
OpenText == Trim(JoinLines(sectionContent))

\* C20: when the open section has content and the record already holds a
\* value an earlier section of the same kind stored (system, user, options, a
\* segment of the same name), the record holds after the flush what the later
\* section gives alone: its trimmed text, or the validation of the later
\* options lines with no key of the earlier options carried over.
C20_LastSectionWins ==
    inBlock /\ ~returned /\ sectionContent # <<>> =>
        /\ currentSection = "system" /\ Has(Val(currentPromt).system)
                => AfterMarker.system = Some(OpenText)
        /\ currentSection = "user" /\ Has(Val(currentPromt).user)
                => AfterMarker.user = Some(OpenText)
        /\ currentSection = "segment" /\ OrEmpty(currentSegmentName) # <<>>
                /\ ValuesAt(OrEmpty(Val(currentPromt).segment), Val(currentSegmentName)) # {}
                => ValuesAt(Val(AfterMarker.segment), Val(currentSegmentName)) = {OpenText}
        /\ currentSection = "options" /\ Has(Val(currentPromt).options)
                => /\ AfterMarker.options =
                          Some(PromtOptionsParse(use,
                                   Some(Obj(parseOptionsToObject(OpenText))), FALSE))
                   /\ \A e \in Range(Val(AfterMarker.options)) :
                          e[1] \in KeysOfLines(Range(sectionContent))

\* a second options section with another key than the first: the first key
\* is gone after the flush
C20_Witness ==
    /\ inBlock /\ ~returned
    /\ currentSection = "options" /\ sectionContent = <<L_stop>>
    /\ ValuesAt(OrEmpty(Val(currentPromt).options), K_temperature) # {}
    /\ ValuesAt(Val(AfterMarker.options), K_temperature) = {}
    /\ ValuesAt(Val(AfterMarker.options), K_stopSequences) # {}

\* a second system section, and a second segment of the same name, with
\* another text than the first
C20_WitnessText ==
    /\ inBlock /\ ~returned /\ sectionContent # <<>>
    /\ \/ /\ currentSection = "system"
          /\ Has(Val(currentPromt).system)
          /\ Val(currentPromt).system # Some(OpenText)
       \/ /\ currentSection = "segment"
          /\ ValuesAt(OrEmpty(Val(currentPromt).segment), OrEmpty(currentSegmentName))
                \notin {{}, {OpenText}}

\* the lines of the alphabet that are section markers
SectionMarkerLines == {line \in Lines : IsSectionMarker(Trim(line))}

\* the output with the record of the open block as it is now, when its user
\* text is not empty
WithOpenRecord ==
    IF OrEmpty(Val(currentPromt).user) # <<>> THEN promts \o <<Val(currentPromt)>> ELSE promts

\* C21: a section with no buffered line is not flushed: when the buffer is
\* empty, a section marker, a block marker or the end of the input changes no
\* field of the record of the open block, so a value an earlier section of the
\* same kind stored is kept.
C21_EmptyBufferNoFlush ==
    inBlock /\ ~returned /\ sectionContent = <<>> =>
        /\ \A line \in SectionMarkerLines :
                StepLine(State, line, use).currentPromt = currentPromt
        /\ StepLine(State, L_end, use).promts = WithOpenRecord
        /\ StepLine(State, L_begin, use).promts = WithOpenRecord
        /\ Output = WithOpenRecord

\* a second system marker with no line after it, in a block whose first
\* system section stored a text
C21_Witness ==
    /\ inBlock /\ ~returned
    /\ currentSection = "system" /\ sectionContent = <<>>
    /\ OrEmpty(Val(currentPromt).system) # <<>>
    /\ StepLine(State, L_user, use).currentPromt = currentPromt

\* the segment names a record holds
SegmentNames(promt) == {e[1] : e \in Range(OrEmpty(promt.segment))}

\* the records of the output, and the record of the open block
RecordsInReach == Range(Output) \cup Range(currentPromt)

\* C22: a $$segment= marker whose name is empty after trimming stores
\* nothing: the flush of its buffered lines leaves every field of the record as
\* it is; no record holds a segment under the empty name, and every segment
\* name a record holds is trimmed.
C22_UnnamedSegment ==
    /\ inBlock /\ ~returned /\ currentSection = "segment"
            /\ OrEmpty(currentSegmentName) = <<>>
            => /\ \A line \in SectionMarkerLines :
                      StepLine(State, line, use).currentPromt = currentPromt
               /\ Output = WithOpenRecord
    /\ \A promt \in RecordsInReach :
            \A name \in SegmentNames(promt) : name # <<>> /\ Trim(name) = name

\* an unnamed segment section that buffered a line of text
C22_Witness ==
    /\ inBlock /\ ~returned /\ currentSection = "segment"
    /\ currentSegmentName = Some(<<>>)
    /\ sectionContent = <<L_hi>>
    /\ StepLine(State, L_user, use).currentPromt = currentPromt

\* a segment stored under the trimmed name of its marker
C22_WitnessTrimmed ==
    /\ returned
    /\ \E n \in 1..Len(promts) : SegmentNames(promts[n]) = {<<"a">>}

(***************************************************************************)
(* Properties of PromtOptionsParse under changes to a result, over every   *)
(* state its caller reaches.                                               *)
(***************************************************************************)
\* C23: a result of PromtOptionsParse shares no mutable value with the
\* defaults table or with the result of another call: whatever the caller
\* pushes to the stopSequences of a result it keeps, the defaults tables hold
\* what they held and a later call with the same arguments returns what the
\* first call returned.
C23_NoSharedState ==
    /\ defaultStops = [u \in Profiles |-> <<>>]
    /\ Has(again) => Val(again) = Val(kept).returned

\* a later call after a push to the result of a call that asked for defaults
C23_Shared ==
    /\ Has(kept) /\ Has(again)
    /\ Val(kept).all /\ Val(kept).rawArg = None
    /\ Val(kept).result # Val(kept).returned

(***************************************************************************)
(* The option value written and decoded again, over every state a caller   *)
(* of parseOptionValue reaches.                                            *)
(***************************************************************************)
\* a number, a boolean or an array of texts
IsOptionValue(v) ==
    \/ v.t \in {"num", "infinity", "bool"}
    \/ v.t = "arr" /\ \A n \in 1..Len(v.a) : v.a[n].t = "str"

\* the value the decoder gives for the line serializeOptionValue writes
WrittenAndDecoded(v) == ValueOfLine(serializeOptionValue(K_topK, v))

\* the value parseOptionValue returned, when it is an option value
DecodedValues ==
    IF Has(decoded) /\ Has(Val(decoded))
    THEN {v \in {Val(Val(decoded))} : IsOptionValue(v)}
    ELSE {}

\* C24: every option value the decoder produces (a number, a boolean, an
\* array of texts) is decoded again from the right-hand side of the line
\* serializeOptionValue writes for it.
C24_WriteThenDecode ==
    \A v \in DecodedValues : WrittenAndDecoded(v) = Some(v)

\* the same but for the numbers 0 and 1, which are written as the texts the
\* decoder reads as booleans
C24_ButZeroAndOne ==
    \A v \in DecodedValues \ {Int2Num(0), Int2Num(1)} : WrittenAndDecoded(v) = Some(v)

\* the text 1. decodes to the number 1, written as 1 and decoded as true
C24_NumberOne ==
    /\ valueStr = <<"1", ".">>
    /\ DecodedValues = {Int2Num(1)}
    /\ WrittenAndDecoded(Int2Num(1)) = Some(Bool(TRUE))

(***************************************************************************)
(* Properties of the order of the records, over every state a caller of    *)
(* PromtLoad on a written text reaches.                                    *)
(***************************************************************************)
\* the lines that open a block
BeginLines == {n \in 1..Len(document) : Trim(document[n]) = M_begin}

\* the lines from a $$begin line up to the next one, or to the end
BlockAt(n) ==
    SubSeq(document, n,
           IF \E m \in BeginLines : m > n
           THEN (CHOOSE m \in BeginLines :
                    m > n /\ \A k \in BeginLines : k > n => m <= k) - 1
           ELSE Len(document))

\* what PromtLoad returns for the lines of one block alone
RecordsOfBlock(n) == PromtLoad(JoinLines(BlockAt(n)), "core")

\* block by block, in the order the blocks open
RECURSIVE RecordsFrom(_)
RecordsFrom(n) ==
    IF n > Len(document) THEN <<>>
    ELSE IF n \in BeginLines THEN RecordsOfBlock(n) \o RecordsFrom(n + 1)
    ELSE RecordsFrom(n + 1)

\* the records appended once the first k lines are read
RECURSIVE LocalsAfter(_)
LocalsAfter(k) ==
    IF k = 0 THEN StartState ELSE StepLine(LocalsAfter(k - 1), document[k], "core")
AppendedAfter(k) == LocalsAfter(k).promts

IsPrefix(a, b) == Len(a) <= Len(b) /\ SubSeq(b, 1, Len(a)) = a

\* C25: the records PromtLoad returns are those of the blocks of the text,
\* in the order the blocks open, each block giving at most one; there are no
\* more records than $$begin lines; and a record once appended stays as it is
\* and where it is while the lines after it are read.
C25_RecordsInOrder ==
    Has(output) =>
        /\ Val(output) = RecordsFrom(1)
        /\ \A n \in BeginLines : Len(RecordsOfBlock(n)) <= 1
        /\ Len(Val(output)) <= Cardinality(BeginLines)
        /\ \A k \in 1..Len(document) :
                /\ IsPrefix(AppendedAfter(k - 1), AppendedAfter(k))
                /\ Len(AppendedAfter(k)) <= Len(AppendedAfter(k - 1)) + 1
        /\ IsPrefix(AppendedAfter(Len(document)), Val(output))

\* two blocks, the second opened inside the first, with different user texts
C25_Witness ==
    /\ Has(output)
    /\ document = <<L_begin, L_user, L_hi, L_begin, L_user, L_padded>>
    /\ Len(Val(output)) = 2
    /\ Val(output)[1].user = Some(<<"h", "i">>)
    /\ Val(output)[2].user = Some(<<"x">>)

\* three $$begin lines and one record
C25_WitnessFewer ==
    /\ Has(output)
    /\ Cardinality(BeginLines) = 3
    /\ Len(Val(output)) = 1

(***************************************************************************)
(* Properties of the texts stored and of the profile, over every state a   *)
(* run of parse reaches.                                                   *)
(***************************************************************************)
\* the system, user and segment texts of a record
TextsOf(promt) ==
    Range(promt.system) \cup Range(promt.user)
        \cup {e[2] : e \in Range(OrEmpty(promt.segment))}

IsMarkerLine(line) ==
    \/ Trim(line) \in {L_begin, L_end, L_system, L_user, L_options, L_grammar}
    \/ StartsWith(Trim(line), L_segmentNoName)

\* C26: in every record of the output no line of the system text, of the
\* user text or of a segment text is, once trimmed, one of $$begin, $$end,
\* $$system, $$user, $$options, $$grammar or a text starting with $$segment=,
\* and each of these texts is trimmed.
C26_NoMarkerStored ==
    \A n \in 1..Len(Output) :
        \A text \in TextsOf(Output[n]) :
            /\ Trim(text) = text
            /\ \A line \in Range(SplitLines(text)) : ~IsMarkerLine(line)

\* a record whose user text has two lines, the first written with spaces
\* around it
C26_Witness ==
    /\ ~returned /\ inBlock
    /\ currentSection = "user" /\ sectionContent = <<L_padded, L_hi>>
    /\ Len(Output) = Len(promts) + 1
    /\ Output[Len(Output)].user = Some(<<"x", " ", "\n", "h", "i">>)

\* C27: the output of PromtLoad is the same under the two profiles: two
\* runs of parse on the same lines, one under core and one under json, hold
\* the same locals after every line and return the same records.
C27_ProfileIndependent ==
    /\ coreRun = jsonRun
    /\ Has(bothReturned) => Val(bothReturned).core = Val(bothReturned).json

\* an options section with a value out of bounds was flushed in both runs:
\* the record returned holds the same options under both profiles, with no
\* default of either table
C27_Witness ==
    /\ Has(bothReturned)
    /\ coreRun.currentSection = "options" /\ coreRun.sectionContent = <<L_topPHigh>>
    /\ Len(Val(bothReturned).core) = 1
    /\ Val(bothReturned).core[1].options = Some(<<>>)
    /\ Val(bothReturned).json[1].options = Some(<<>>)

\* a valid value was flushed in both runs
C27_WitnessValid ==
    /\ Has(bothReturned)
    /\ coreRun.sectionContent = <<L_temperature>>
    /\ Len(Val(bothReturned).json) = 1
    /\ Val(bothReturned).json[1].options = Some(<< <<K_temperature, Num(7, 1)>> >>)

====
